---- MODULE Spec2Model ----
(***************************************************************************)
(* Model of the livetranscription chunk pipeline: the chunk watcher        *)
(* (chunk_watcher.py), the session ledger and logs (session_store.py),     *)
(* the CLI run loop (cli.py) and the server session handlers and           *)
(* processing loop (server.py).                                            *)
(*                                                                         *)
(* A session directory is modelled by its files: chunks_dir, failed_dir,   *)
(* transcript_txt, transcript_jsonl, state_json, summary_md and            *)
(* meeting_prep_json.  A text is a string; a joined block of texts is the  *)
(* sequence of the texts joined.                                           *)
(*                                                                         *)
(* Spec           a session run by the CLI or by the server                *)
(* SpecWatcher    the two watcher functions on any directory content       *)
(* SpecLedger     save_state and load_state at the grain of file writes    *)
(* SpecServerFair the server session under a fair event loop               *)
(***************************************************************************)
EXTENDS Integers, Sequences, FiniteSets, TLC

\* ---------------------------------------------------------------- bounds
\* capture writes the chunk files out00000.wav .. out<MaxChunk>.wav
MaxChunk == 2
\* number of times `livetranscribe run` is invoked on the session directory
MaxRuns == 2
\* number of accepted start requests of the server session
MaxTasks == 2
\* cap on the structured transcript log length
MaxLog == 4
\* number of analyze_chunk calls made by the loops of all sessions
MaxCalls == 2

\* ------------------------------------------------------- chunk_watcher.py
\* return None of parse_chunk_index
NoIndex == -2

ChunkPath(i) == [kind |-> "chunk", n |-> i]

\* a file name that matches the glob out*.wav but not _CHUNK_RE
StrayOutPath == [kind |-> "outname", n |-> 0]

\* a file name that does not match the glob out*.wav
OtherPath == [kind |-> "other", n |-> 0]

ChunkFile(i, p) == [index |-> i, path |-> p]

None == [index |-> NoIndex, path |-> [kind |-> "none", n |-> 0]]

parse_chunk_index(path) == IF path.kind = "chunk" THEN path.n ELSE NoIndex

\* chunks_dir.glob("out*.wav")
Glob(dir) == {p \in dir : p.kind \in {"chunk", "outname"}}

SetMax(S) == CHOOSE x \in S : \A y \in S : y <= x

RECURSIVE FindBest(_, _, _)
FindBest(paths, after_index, best) ==
    IF paths = {} THEN best
    ELSE LET path == CHOOSE p \in paths : TRUE
             idx == parse_chunk_index(path)
             nb == IF idx = NoIndex \/ idx <= after_index THEN best
                   ELSE IF best = None \/ idx < best.index
                        THEN ChunkFile(idx, path)
                        ELSE best
         IN FindBest(paths \ {path}, after_index, nb)

\* find_next_chunk with the comparison idx <= after_index applied to
\* after_index + 1
find_next_chunk_skip(dir, after_index) == FindBest(Glob(dir), after_index + 1, None)

find_next_chunk(dir, after_index) == FindBest(Glob(dir), after_index, None)

Candidates(dir, after_index) ==
    {ChunkFile(parse_chunk_index(p), p) :
        p \in {q \in Glob(dir) : parse_chunk_index(q) # NoIndex
                                 /\ parse_chunk_index(q) > after_index}}

\* find_next_completed_chunk without the exclusion of the newest chunk
find_next_completed_chunk_newest(dir, after_index) ==
    IF Candidates(dir, after_index) = {} THEN None
    ELSE CHOOSE c \in Candidates(dir, after_index) :
            \A d \in Candidates(dir, after_index) : c.index <= d.index

\* find_next_completed_chunk taking the lowest candidate as soon as one
\* candidate exists, the newest included when it is alone
find_next_completed_chunk_alone(dir, after_index) ==
    FindBest(Glob(dir), after_index, None)

find_next_completed_chunk(dir, after_index) ==
    LET candidates == Candidates(dir, after_index)
    IN IF Cardinality(candidates) < 2 THEN None
       ELSE LET newest_index == SetMax({c.index : c \in candidates})
                completed == {c \in candidates : c.index # newest_index}
            IN IF completed = {} THEN None
               ELSE CHOOSE c \in completed : \A d \in completed : c.index <= d.index

max_chunk_index(dir) ==
    SetMax({-1} \cup {parse_chunk_index(p) :
                        p \in {q \in Glob(dir) : parse_chunk_index(q) # NoIndex}})

\* ------------------------------------------------------- session_store.py
\* load_state returning None: no state.json
NoState == [chunk_seconds |-> 0, last_processed_index |-> -1,
            last_summarized_index |-> -1, summary |-> <<>>]

SessionState_new(cs) == [chunk_seconds |-> cs, last_processed_index |-> -1,
                         last_summarized_index |-> -1, summary |-> <<>>]

\* the ledger read back from state.json (from_json of the saved fields)
load_state(file) == file

\* the content of state.json after save_state(paths, st)
save_state(st) == [chunk_seconds |-> st.chunk_seconds,
                   last_processed_index |-> st.last_processed_index,
                   last_summarized_index |-> st.last_summarized_index,
                   summary |-> st.summary]

\* the content of summary.md after write_summary
write_summary(summary) == summary

\* str.strip() of a text: the blank text strips to the empty string
Strip(t) == IF t = " " THEN "" ELSE t

format_hhmmss(total_seconds) ==
    <<total_seconds \div 3600, (total_seconds % 3600) \div 60, total_seconds % 60>>

\* transcript.txt after append_transcript_text
append_transcript_text(txt, chunk_index, cs, t) ==
    Append(txt, [offset |-> format_hhmmss(chunk_index * cs), text |-> Strip(t)])

\* transcript.jsonl after append_jsonl
append_jsonl(log, obj) == Append(log, obj)

\* the record appended by append_jsonl on success / on failure
TextRecord(i, t) == [index |-> i, text |-> t]
ErrorRecord(i) == [index |-> i, error |-> "exc"]

\* out.sort(key=lambda t: t.index): stable insertion sort
RECURSIVE InsertByIndex(_, _)
InsertByIndex(sorted, r) ==
    IF sorted = <<>> THEN <<r>>
    ELSE IF sorted[Len(sorted)].index <= r.index THEN Append(sorted, r)
         ELSE Append(InsertByIndex(SubSeq(sorted, 1, Len(sorted) - 1), r),
                     sorted[Len(sorted)])

RECURSIVE SortByIndex(_)
SortByIndex(s) ==
    IF s = <<>> THEN <<>>
    ELSE InsertByIndex(SortByIndex(SubSeq(s, 1, Len(s) - 1)), s[Len(s)])

KeepRecord(obj, after_index) ==
    /\ "text" \in DOMAIN obj
    /\ obj.index > after_index
    /\ Strip(obj.text) # ""

load_transcript_since(log, after_index) ==
    SortByIndex(SelectSeq(log, LAMBDA obj : KeepRecord(obj, after_index)))

Texts(records) == [k \in 1..Len(records) |-> records[k].text]

\* ------------------------------------------------------------- variables
VARIABLES
    mode,                 \* "cli": livetranscribe run; "server": the web server
    blank_chunks,         \* the chunks transcribed to a blank text
    bad_chunks,           \* the chunks whose transcription always raises
    chunks_dir,           \* files of paths.chunks_dir
    failed_dir,           \* files of paths.failed_dir
    transcript_txt,       \* lines of transcript.txt
    transcript_jsonl,     \* records of transcript.jsonl
    state_json,           \* the ledger in state.json (NoState: no file)
    summary_md,           \* summary written by write_summary
    meeting_prep_json,    \* whether meeting_prep.json exists
    ffmpeg,               \* the capture process: [alive, next, segment_time]
    state,                \* the SessionState object in memory
    keep_audio,           \* --keep-audio / request.keep_audio
    cli_pc,               \* position of the CLI run
    phase,                \* "loop": main loop; "drain": finally block; "final"
    chunk,                \* the ChunkFile being processed by the CLI
    text,                 \* the text of the transcription result in hand
    pending_for_summary,  \* cli.py run: pending_for_summary
    last_processed_index, \* cli.py run: last_processed_index
    runs,                 \* number of runs started
    chunk_seconds,        \* cli.py run: chunk_seconds
    warned,               \* cli.py run: the chunk_seconds warning was printed
    status,               \* server: active.status ("none": no session)
    summary_minutes,      \* server: active.summary_minutes
    tasks,                \* server: the _process_chunks tasks created
    processing_task,      \* server: active.processing_task (0: None)
    stop_pc,              \* server: position of the stop_session handler
    state_json_written,   \* how much of state.json's text is on disk
    saved_before,         \* the ledger state.json held before the last save
    load_pc,              \* position of a load_state call of a reader
    loaded,               \* what that load_state call returned
    after_index,          \* watcher call: the after_index argument
    found,                \* watcher call: the function called and its result
    now,                  \* time.time()
    chunk_alert_count,    \* the engine's _chunk_alert_count
    last_alert_times,     \* the engine's _last_alert_times
    recent_transcript,    \* the engine's _recent_transcript
    calls,                \* per session: the analyze_chunk call of its loop
    coaching_jsonl,       \* per session: the alert log
    bus,                  \* per session: the alerts published on the event bus
    broadcast,            \* per session: the alerts sent to its websockets
    async_subscribers,    \* EventBus._async_subscribers: lists of queues
    sync_handlers,        \* EventBus._sync_handlers: lists of handlers
    queues,               \* the asyncio.Queue objects subscribe has returned
    publishing,           \* the EventBus.publish call in progress
    event_log,            \* every event a publish call was made for, in order
    registrations,        \* number of on calls made so far
    talking_points,       \* meeting_prep.json: the talking points of the prep, in order
    transcript_chunk,     \* the chunk text update_topic_coverage was last called with
    response_data,        \* the JSON object of the model's coaching response
    parsed_alerts,        \* the list _analyze_with_llm returns, once it has returned
    websocket_connections,\* _websocket_connections[session_id]: the listeners of the session
    websockets,           \* per listener: "none", "open", "closed" (by the client) or "gone"
    broadcasting,         \* the broadcast_to_session call in progress, or the last one
    dismiss_result,       \* the last dismiss_coaching_alert call: its alert_id and what it returned
    invocation            \* the call of transcribe_audio_file or update_running_summary in progress

cfgVars == <<mode, blank_chunks, bad_chunks>>
diskVars == <<chunks_dir, failed_dir, transcript_txt, transcript_jsonl,
              state_json, summary_md, meeting_prep_json>>
procVars == <<ffmpeg, state, keep_audio>>
cliVars == <<cli_pc, phase, chunk, text, pending_for_summary,
             last_processed_index, runs, chunk_seconds, warned>>
srvVars == <<status, summary_minutes, tasks, processing_task, stop_pc>>
ledgerVars == <<state_json_written, saved_before, load_pc, loaded>>
watchVars == <<after_index, found>>
coachVars == <<now, chunk_alert_count, last_alert_times, recent_transcript,
               calls, coaching_jsonl, bus, broadcast>>
busVars == <<async_subscribers, sync_handlers, queues, publishing, event_log,
             registrations>>
sideVars == <<talking_points, transcript_chunk, response_data, parsed_alerts,
            websocket_connections, websockets, broadcasting,
            dismiss_result, invocation>>
vars == <<cfgVars, diskVars, procVars, cliVars, srvVars, ledgerVars, watchVars,
          coachVars, busVars, sideVars>>

\* --chunk-seconds / request.chunk_seconds values tried
ChunkSecondsChoices == {30, 60}

\* the words spoken in chunk i
Words == <<"w0", "w1", "w2", "w3", "w4", "w5">>
Word(i) == Words[i + 1]

\* the sets of chunks whose transcription response is malformed and carries
\* a blank text (transcribe.py:154-156 returns the extracted text as it is)
BlankChoices == {{}, {0, 1}}

\* the sets of chunks whose transcription fails on every attempt
BadChoices == {{}, {0}, {1}}

\* the text of the transcription result of chunk i
ResultText(i) == IF i \in blank_chunks THEN " " ELSE Word(i)

NoProc == [alive |-> FALSE, next |-> 0, segment_time |-> 0]

\* request.summary_minutes values tried
SummaryMinutesChoices == {1}

\* a _process_chunks task that has not been created
NoTask == [pc |-> "none", chunk |-> None, last_summary_index |-> -1,
           chunks_per_summary |-> 0, err |-> ""]

\* no load_state call has returned
NoLoad == [kind |-> "none", st |-> NoState]

\* no watcher function has been called
NotFound == [fn |-> "none", result |-> None]

\* ------------------------------------------------------------ summarize.py
\* "\n".join(texts).strip() is blank iff every text is blank
IsBlank(block) == \A k \in 1..Len(block) : Strip(block[k]) = ""

\* the summary returned by a successful update_running_summary call: the
\* model's answer is taken to cover the previous summary and the new block
update_running_summary(previous_summary, new_transcript) ==
    IF IsBlank(new_transcript) THEN previous_summary
    ELSE previous_summary \o new_transcript

\* ------------------------------------------------- watermark assignments
\* state.last_processed_index = chunk_index (cli.py:194, 221; server.py:526)
Processed(st, chunk_index) == [st EXCEPT !.last_processed_index = chunk_index]

\* the SessionState after a successful summary call (cli.py:149-150,
\* server.py:615-616)
Summarized(st, updated) ==
    [st EXCEPT !.summary = updated,
               !.last_summarized_index = st.last_processed_index]


\* ---------------------------------------------------------------- coaching.py
\* the sessions whose loops use the engine
Sessions == {"A", "B"}

\* CoachingEngine.__init__ defaults
max_alerts_per_chunk == 2
alert_cooldown_seconds == 180
max_recent_chunks == 10

\* the instants time.time() is read at
Instants == {1000, 1010, 1180}

\* the alert types that occur
AlertTypes == {"competitor_mention", "objection", "suggested_question"}

\* matches of find_competitor_mentions in a chunk text
MentionChoices == {0, 3}

\* the alert types of the list _analyze_with_llm returns, in its order
LlmChoices == {<<>>, <<"objection", "suggested_question">>,
               <<"competitor_mention">>}

\* the per-chunk limit alone
can_send_alert_no_cooldown(count, times, alert_type, t) ==
    ~(count >= max_alerts_per_chunk)

\* coaching.py:179-193 _can_send_alert at time t
can_send_alert(count, times, alert_type, t) ==
    /\ ~(count >= max_alerts_per_chunk)
    /\ ~(t - times[alert_type] < alert_cooldown_seconds)

\* coaching.py:195-198 _record_alert at time t
record_alert_times(times, alert_type, t) == [times EXCEPT ![alert_type] = t]

\* coaching.py:229-231 the rolling window after a chunk text is added
UpdateWindow(window, entry) ==
    IF Len(window) + 1 > max_recent_chunks
    THEN Tail(Append(window, entry))
    ELSE Append(window, entry)

\* the CoachingAlert emitted by the call n of session s at time t
CoachingAlert(s, n, alert_type, t) ==
    [session |-> s, call |-> n, alert_type |-> alert_type, time |-> t]

\* no analyze_chunk call is running for a session; n calls were made
NoCall(n) == [pc |-> "idle", n |-> n, mentions |-> 0, llm_alerts |-> <<>>,
              result |-> <<>>, llm_error |-> FALSE]

\* an exception of the LLM call leaves analyze_chunk and reaches the loop's
\* handler: the result is lost
LlmErrorPropagates(call) == [NoCall(call.n) EXCEPT !.llm_error = TRUE]

\* coaching.py:285-289 an exception of the LLM call is caught and printed,
\* and analyze_chunk returns the result it has
LlmError(call) ==
    [call EXCEPT !.pc = "broadcast", !.llm_alerts = <<>>, !.llm_error = TRUE]

\* a new engine (coaching.py:161-177) and no alert anywhere
InitEngine ==
    /\ now = 1000
    /\ chunk_alert_count = 0
    /\ last_alert_times = [ty \in AlertTypes |-> 0]
    /\ recent_transcript = <<>>
    /\ calls = [s \in Sessions |-> NoCall(0)]
    /\ coaching_jsonl = [s \in Sessions |-> <<>>]
    /\ bus = [s \in Sessions |-> <<>>]
    /\ broadcast = [s \in Sessions |-> <<>>]

\* ---------------------------------------------------------- the event bus
\* events.py:16-17 two of the event types the program publishes
EventTypes == {"chunk_transcribed", "coaching_alert"}

\* keys of the two dictionaries: an event type or the wildcard
BusKeys == EventTypes \cup {"*"}

\* the keys clients and handlers register for and unregister from
ClientKeys == {"chunk_transcribed", "*"}

\* the callables clients register with on()
Handlers == {"h1", "h2"}

\* bounds: subscribe calls made, on calls made, events published
MaxQueues == 2
MaxOn == 2
MaxEvents == 2

\* events.py:25-32 an Event; id is the number of the publish call
Event(id, event_type) == [id |-> id, type |-> event_type]
NoEvent == Event(0, "")

\* a queue that starts with the events already published
NewQueueReplay(event_type, since) ==
    [made |-> TRUE, key |-> event_type, items |-> event_log,
     put |-> event_log, taken |-> 0, since |-> since]

\* events.py:65 asyncio.Queue(): an empty unbounded queue.  put, taken and
\* since are history: every event ever put, the number of events taken, and
\* the number of publish calls begun before the queue was made.
NewQueue(event_type, since) ==
    [made |-> TRUE, key |-> event_type, items |-> <<>>, put |-> <<>>,
     taken |-> 0, since |-> since]

NoQueue == [made |-> FALSE, key |-> "", items |-> <<>>, put |-> <<>>,
            taken |-> 0, since |-> 0]

\* a put that drops the event when the queue is not empty
QueuePutIfEmpty(queue, event) ==
    IF queue.items = <<>>
    THEN [queue EXCEPT !.items = <<event>>, !.put = Append(@, event)]
    ELSE queue

\* events.py:111, 116 queue.put(event) on an unbounded queue
QueuePut(queue, event) ==
    [queue EXCEPT !.items = Append(@, event), !.put = Append(@, event)]

\* list.remove(x): the first entry equal to x is removed; ValueError, which
\* unsubscribe and off ignore (events.py:80-83, 98-101), leaves the list
Remove(list, id) ==
    IF \E k \in 1..Len(list) : list[k].id = id
    THEN LET k == CHOOSE j \in 1..Len(list) :
                      /\ list[j].id = id
                      /\ \A m \in 1..(j - 1) : list[m].id # id
         IN SubSeq(list, 1, k - 1) \o SubSeq(list, k + 1, Len(list))
    ELSE list

\* events.py:55-67 subscribe appends the new queue to the list of its key;
\* queues are numbered as they are made
subscribe(subs, event_type, q) ==
    [subs EXCEPT ![event_type] = Append(@, [id |-> q, reg |-> q])]

\* unsubscribe that removes the queue from the list of every key
unsubscribe_everywhere(subs, event_type, q) ==
    [k \in DOMAIN subs |-> Remove(subs[k], q)]

\* events.py:77-83
unsubscribe(subs, event_type, q) ==
    [subs EXCEPT ![event_type] = Remove(@, q)]

\* events.py:85-93 on appends the handler, also when it is in the list; reg
\* is the number of the on call
on(hs, event_type, handler, reg) ==
    [hs EXCEPT ![event_type] = Append(@, [id |-> handler, reg |-> reg])]

\* events.py:95-101
off(hs, event_type, handler) ==
    [hs EXCEPT ![event_type] = Remove(@, handler)]

\* the registrations of a list, each with the phase of publish it belongs to
Tag(list, ph) ==
    [k \in 1..Len(list) |-> [phase |-> ph, id |-> list[k].id,
                             reg |-> list[k].reg]]

\* the wildcard queues served before the queues of the event's type
TargetsWildcardFirst(subs, event_type) ==
    Tag(subs["*"], 2) \o Tag(subs[event_type], 1)

\* events.py:109-117 the queues publish puts the event on, in order: those
\* of the event's type (phase 1), then the wildcard ones (phase 2)
Targets(subs, event_type) ==
    Tag(subs[event_type], 1) \o Tag(subs["*"], 2)

\* the registrations in the lists of the keys: queues and handlers
RegsOf(subs, hs, keys) ==
    UNION {{[kind |-> "queue", reg |-> subs[k][i].reg] :
                i \in 1..Len(subs[k])} \cup
           {[kind |-> "handler", reg |-> hs[k][i].reg] :
                i \in 1..Len(hs[k])} : k \in keys}

\* no publish call is in progress.  Of a call in progress: the event, the
\* loop and its index, and as history the deliveries made so far (calls) and
\* the registrations that were in the lists when the call began and have
\* not been removed since (stayed).
NoPublish == [pc |-> "idle", event |-> NoEvent, i |-> 0, calls |-> <<>>,
              stayed |-> {}]

\* events.py:51-53, 148-153 a new EventBus
InitBus ==
    /\ async_subscribers = [k \in BusKeys |-> <<>>]
    /\ sync_handlers = [k \in BusKeys |-> <<>>]
    /\ queues = [q \in 1..MaxQueues |-> NoQueue]
    /\ publishing = NoPublish
    /\ event_log = <<>>
    /\ registrations = 0

\* ------------------------------------------------ the rest of the session
\* no response of the coaching model yet, and nothing returned for it
NoResponse == [objections |-> <<>>, suggested_questions |-> <<>>,
               missing_topics |-> <<>>, competitor_insights |-> <<>>,
               observations |-> <<>>]

NotParsed == [done |-> FALSE, alerts |-> <<>>]

\* the websockets that may connect to the session
Listeners == {"a", "b", "c"}

\* no broadcast made yet.  Of a broadcast: the index of its loop, its
\* dead_connections, and as history the listeners the message was sent to
\* (sent) and those connected since it began (whole).
NoBroadcast == [pc |-> "idle", i |-> 0, dead_connections |-> <<>>,
                sent |-> <<>>, whole |-> {}]

\* no dismiss_coaching_alert call made
NoDismiss == [alert_id |-> "", found |-> FALSE]

\* no error raised or caught
NoError == [kind |-> "", at |-> 0]

\* no call of transcribe_audio_file or update_running_summary.  Of a call:
\* the function, its max_attempts, whether the new transcript is blank, the
\* loop's attempt, the outcomes of the calls of the model so far, the attempt
\* whose response was returned, last_exc and the error raised.
NoInvocation == [fn |-> "", max_attempts |-> 0, blank |-> FALSE,
                 pc |-> "idle", attempt |-> 0, outcomes |-> <<>>,
                 result |-> 0, last_exc |-> NoError, raised |-> NoError]

\* no talking point, no listener, no call of an external model
InitSide ==
    /\ talking_points = <<>>
    /\ transcript_chunk = <<>>
    /\ response_data = NoResponse
    /\ parsed_alerts = NotParsed
    /\ websocket_connections = <<>>
    /\ websockets = [l \in Listeners |-> "none"]
    /\ broadcasting = NoBroadcast
    /\ dismiss_result = NoDismiss
    /\ invocation = NoInvocation

\* ------------------------------------------------------------------ Init
\* the logs of a session directory as init_session_dir leaves it
InitDisk ==
    /\ failed_dir = {}
    /\ transcript_txt = <<>>
    /\ transcript_jsonl = <<>>
    /\ summary_md = <<>>
    /\ meeting_prep_json = FALSE

\* no CLI run and no server task yet
InitProcesses ==
    /\ ffmpeg = NoProc
    /\ keep_audio = FALSE
    /\ cli_pc = "down"
    /\ phase = "loop"
    /\ chunk = None
    /\ text = ""
    /\ pending_for_summary = <<>>
    /\ last_processed_index = -1
    /\ runs = 0
    /\ chunk_seconds = 0
    /\ warned = FALSE
    /\ summary_minutes = 0
    /\ tasks = [t \in 1..MaxTasks |-> NoTask]
    /\ processing_task = 0
    /\ stop_pc = "idle"

\* no load_state call and no watcher call made
InitCalls ==
    /\ state_json_written = "all"
    /\ saved_before = NoState
    /\ load_pc = "idle"
    /\ loaded = NoLoad
    /\ found = NotFound

Init ==
    /\ mode \in {"cli", "server"}
    /\ blank_chunks \in BlankChoices
    /\ bad_chunks \in BadChoices
    /\ chunks_dir = {}
    /\ state_json = NoState
    /\ state = NoState
    /\ status = "none"
    /\ after_index = -1
    /\ InitDisk
    /\ InitProcesses
    /\ InitCalls
    /\ InitEngine
    /\ InitBus
    /\ InitSide

\* ------------------------------------------------- the capture process
\* ffmpeg closes the segment it was writing and opens the next one
\* (ffmpeg_capture.py:156-164: -f segment, numbered from segment_start_number)
CaptureWrite ==
    /\ ffmpeg.alive
    /\ ffmpeg.next <= MaxChunk
    /\ chunks_dir' = chunks_dir \cup {ChunkPath(ffmpeg.next)}
    /\ ffmpeg' = [ffmpeg EXCEPT !.next = @ + 1]
    /\ UNCHANGED <<cfgVars, failed_dir, transcript_txt, transcript_jsonl,
                   state_json, summary_md, meeting_prep_json, state,
                   keep_audio, cliVars, srvVars, ledgerVars, watchVars,
                   coachVars, busVars, sideVars>>

\* ffmpeg exits on its own
CaptureExit ==
    /\ ffmpeg.alive
    /\ ffmpeg' = [ffmpeg EXCEPT !.alive = FALSE]
    /\ UNCHANGED <<cfgVars, diskVars, state, keep_audio, cliVars, srvVars,
                   ledgerVars, watchVars, coachVars, busVars, sideVars>>

\* ------------------------------------------------------ cli.py: run
\* segment_start_number of cli.py:105-106
SegmentStart(dir, st) ==
    IF max_chunk_index(dir) >= st.last_processed_index
    THEN max_chunk_index(dir) + 1
    ELSE st.last_processed_index + 1

\* a resumption that writes the chunk length of the command line into the
\* ledger
ResumeStateGiven(file, cs) ==
    IF load_state(file) = NoState THEN SessionState_new(cs)
    ELSE [load_state(file) EXCEPT !.chunk_seconds = cs]

\* cli.py:92-101 the state run() continues with: the ledger on disk, or a
\* new one
ResumeState(file, cs) ==
    IF load_state(file) = NoState THEN SessionState_new(cs) ELSE load_state(file)

\* the chunk length given on the command line, whatever the ledger says
ResumeChunkSecondsGiven(file, cs) == cs

\* cli.py:92-101 the chunk_seconds run() goes on with: the ledger's when a
\* ledger exists
ResumeChunkSeconds(file, cs) ==
    IF load_state(file) = NoState THEN cs ELSE load_state(file).chunk_seconds

\* cli.py:95-100 the warning is printed
ResumeWarning(file, cs) ==
    /\ load_state(file) # NoState
    /\ load_state(file).chunk_seconds # cs

\* pending_for_summary read back from the last processed index instead of
\* the last summarized index
ResumePendingProcessed(log, st) ==
    Texts(load_transcript_since(log, st.last_processed_index))

\* pending_for_summary of cli.py:103
ResumePending(log, st) ==
    Texts(load_transcript_since(log, st.last_summarized_index))

\* cli.py:84-122: a run starts (or resumes) the session
RunStart ==
    /\ mode = "cli"
    /\ cli_pc = "down"
    /\ runs < MaxRuns
    /\ \E cs \in ChunkSecondsChoices, ka \in BOOLEAN :
        /\ state' = ResumeState(state_json, cs)
        /\ chunk_seconds' = ResumeChunkSeconds(state_json, cs)
        /\ warned' = ResumeWarning(state_json, cs)
        /\ keep_audio' = ka
    /\ pending_for_summary' = ResumePending(transcript_jsonl, state')
    /\ ffmpeg' = [alive |-> TRUE, next |-> SegmentStart(chunks_dir, state'),
                  segment_time |-> chunk_seconds']
    /\ last_processed_index' = state'.last_processed_index
    /\ state_json' = save_state(state')
    /\ runs' = runs + 1
    /\ cli_pc' = "poll"
    /\ phase' = "loop"
    /\ UNCHANGED <<cfgVars, chunks_dir, failed_dir, transcript_txt,
                   transcript_jsonl, summary_md, meeting_prep_json, chunk,
                   text, srvVars, ledgerVars, watchVars, coachVars,
                   busVars, sideVars>>

\* where control goes when process_chunk / maybe_update_summary returns
AfterChunk == IF phase = "loop" THEN "maybe_summary" ELSE "drain"
AfterSummary == IF phase = "final" THEN "down" ELSE "poll"

\* cli.py:226-236: one poll of the main loop
CliPoll ==
    /\ cli_pc = "poll"
    /\ LET c == find_next_completed_chunk(chunks_dir, last_processed_index)
       IN IF c = None
          THEN /\ cli_pc' = IF ffmpeg.alive THEN "maybe_summary" ELSE "finally"
               /\ UNCHANGED chunk
          ELSE /\ chunk' = c
               /\ cli_pc' = "stable"
    /\ UNCHANGED <<cfgVars, diskVars, procVars, phase, text,
                   pending_for_summary, last_processed_index, runs,
                   chunk_seconds, warned, srvVars, ledgerVars, watchVars,
                   coachVars, busVars, sideVars>>

\* the locals of a run that has ended
CliDown ==
    /\ cli_pc' = "down"
    /\ phase' = "loop"
    /\ chunk' = None
    /\ text' = ""
    /\ pending_for_summary' = <<>>
    /\ last_processed_index' = -1
    /\ state' = NoState
    /\ keep_audio' = FALSE
    /\ chunk_seconds' = 0
    /\ warned' = FALSE

\* cli.py:160 wait_for_file_stable raises TimeoutError (chunk_watcher.py:76):
\* process_chunk does not catch it
CliStableTimeout ==
    /\ cli_pc = "stable"
    /\ cli_pc' = "raise_timeout"
    /\ UNCHANGED <<cfgVars, diskVars, procVars, phase, chunk, text,
                   pending_for_summary, last_processed_index, runs,
                   chunk_seconds, warned, srvVars, ledgerVars, watchVars,
                   coachVars, busVars, sideVars>>

\* cli.py:225-257 the TimeoutError leaves process_chunk: raised in the main
\* loop it takes control to the finally block, raised in the finally block
\* it ends the run
CliTimeoutPropagates ==
    /\ cli_pc = "raise_timeout"
    /\ IF phase = "loop"
       THEN /\ cli_pc' = "finally"
            /\ chunk' = None
            /\ UNCHANGED <<state, keep_audio, chunk_seconds, warned,
                           phase, text, pending_for_summary, last_processed_index>>
       ELSE CliDown
    /\ UNCHANGED <<cfgVars, diskVars, ffmpeg, runs, srvVars, ledgerVars,
                   watchVars, coachVars, busVars, sideVars>>

\* cli.py:171-173: the text kept from a transcription result
NormalizeText(t) == IF Strip(t) = "" THEN "(silence)" ELSE t

\* cli.py:160-176 the file is stable and transcribe_file_gemini returns
CliTranscribeOk ==
    /\ cli_pc = "stable"
    /\ chunk.index \notin bad_chunks
    /\ text' = NormalizeText(ResultText(chunk.index))
    /\ cli_pc' = "append_txt"
    /\ UNCHANGED <<cfgVars, diskVars, procVars, phase, chunk,
                   pending_for_summary, last_processed_index, runs,
                   chunk_seconds, warned, srvVars, ledgerVars, watchVars,
                   coachVars, busVars, sideVars>>

\* cli.py:160-165, 201-202 the file is stable and transcribe_file_gemini
\* raises after its retries
CliTranscribeFail ==
    /\ cli_pc = "stable"
    /\ chunk.index \in bad_chunks
    /\ cli_pc' = "quarantine"
    /\ UNCHANGED <<cfgVars, diskVars, procVars, phase, chunk, text,
                   pending_for_summary, last_processed_index, runs,
                   chunk_seconds, warned, srvVars, ledgerVars, watchVars,
                   coachVars, busVars, sideVars>>

\* cli.py:178 append_transcript_text
CliAppendTxt ==
    /\ cli_pc = "append_txt"
    /\ transcript_txt' = append_transcript_text(transcript_txt, chunk.index,
                                                chunk_seconds, text)
    /\ cli_pc' = "append_jsonl"
    /\ UNCHANGED <<cfgVars, chunks_dir, failed_dir, transcript_jsonl,
                   state_json, summary_md, meeting_prep_json, procVars,
                   phase, chunk, text, pending_for_summary,
                   last_processed_index, runs, chunk_seconds, warned,
                   srvVars, ledgerVars, watchVars, coachVars, busVars,
                   sideVars>>

\* cli.py:179-190 append_jsonl
CliAppendJsonl ==
    /\ cli_pc = "append_jsonl"
    /\ Len(transcript_jsonl) < MaxLog
    /\ transcript_jsonl' = append_jsonl(transcript_jsonl,
                                        TextRecord(chunk.index, text))
    /\ cli_pc' = "save"
    /\ UNCHANGED <<cfgVars, chunks_dir, failed_dir, transcript_txt,
                   state_json, summary_md, meeting_prep_json, procVars,
                   phase, chunk, text, pending_for_summary,
                   last_processed_index, runs, chunk_seconds, warned,
                   srvVars, ledgerVars, watchVars, coachVars, busVars,
                   sideVars>>

\* cli.py:193-196 the watermark is advanced and the ledger saved
CliSave ==
    /\ cli_pc = "save"
    /\ pending_for_summary' = Append(pending_for_summary, text)
    /\ state' = Processed(state, chunk.index)
    /\ last_processed_index' = chunk.index
    /\ state_json' = save_state(state')
    /\ cli_pc' = "unlink"
    /\ UNCHANGED <<cfgVars, chunks_dir, failed_dir, transcript_txt,
                   transcript_jsonl, summary_md, meeting_prep_json, ffmpeg,
                   keep_audio, phase, chunk, text, runs, chunk_seconds,
                   warned, srvVars, ledgerVars, watchVars, coachVars,
                   busVars, sideVars>>

\* cli.py:198-199 the chunk file is deleted unless kept; process_chunk returns
CliUnlink ==
    /\ cli_pc = "unlink"
    /\ chunks_dir' = IF keep_audio THEN chunks_dir ELSE chunks_dir \ {chunk.path}
    /\ cli_pc' = AfterChunk
    /\ chunk' = None
    /\ text' = ""
    /\ UNCHANGED <<cfgVars, failed_dir, transcript_txt, transcript_jsonl,
                   state_json, summary_md, meeting_prep_json, procVars,
                   phase, pending_for_summary, last_processed_index, runs,
                   chunk_seconds, warned, srvVars, ledgerVars, watchVars,
                   coachVars, busVars, sideVars>>

\* cli.py:203-207 the chunk file is moved to failed_chunks
CliQuarantine ==
    /\ cli_pc = "quarantine"
    /\ IF chunk.path \in chunks_dir
       THEN /\ chunks_dir' = chunks_dir \ {chunk.path}
            /\ failed_dir' = failed_dir \cup {chunk.path}
       ELSE UNCHANGED <<chunks_dir, failed_dir>>
    /\ cli_pc' = "error_jsonl"
    /\ UNCHANGED <<cfgVars, transcript_txt, transcript_jsonl, state_json,
                   summary_md, meeting_prep_json, procVars, phase, chunk,
                   text, pending_for_summary, last_processed_index, runs,
                   chunk_seconds, warned, srvVars, ledgerVars, watchVars,
                   coachVars, busVars, sideVars>>

\* cli.py:209-219 the error record is appended
CliErrorJsonl ==
    /\ cli_pc = "error_jsonl"
    /\ Len(transcript_jsonl) < MaxLog
    /\ transcript_jsonl' = append_jsonl(transcript_jsonl, ErrorRecord(chunk.index))
    /\ cli_pc' = "error_save"
    /\ UNCHANGED <<cfgVars, chunks_dir, failed_dir, transcript_txt,
                   state_json, summary_md, meeting_prep_json, procVars,
                   phase, chunk, text, pending_for_summary,
                   last_processed_index, runs, chunk_seconds, warned,
                   srvVars, ledgerVars, watchVars, coachVars, busVars,
                   sideVars>>

\* cli.py:221-223 the watermark moves past the failed chunk
CliErrorSave ==
    /\ cli_pc = "error_save"
    /\ state' = Processed(state, chunk.index)
    /\ last_processed_index' = chunk.index
    /\ state_json' = save_state(state')
    /\ cli_pc' = AfterChunk
    /\ chunk' = None
    /\ UNCHANGED <<cfgVars, chunks_dir, failed_dir, transcript_txt,
                   transcript_jsonl, summary_md, meeting_prep_json, ffmpeg,
                   keep_audio, phase, text, pending_for_summary, runs,
                   chunk_seconds, warned, srvVars, ledgerVars, watchVars,
                   coachVars, busVars, sideVars>>

\* cli.py:124-135 maybe_update_summary returns without calling the model:
\* not forced and not yet due, or nothing pending
CliSummarySkip ==
    /\ cli_pc = "maybe_summary"
    /\ \/ phase # "final"
       \/ pending_for_summary = <<>>
    /\ IF AfterSummary = "down"
       THEN CliDown
       ELSE /\ cli_pc' = AfterSummary
            /\ UNCHANGED <<state, keep_audio, chunk_seconds, warned,
                           phase, chunk, text, pending_for_summary, last_processed_index>>
    /\ UNCHANGED <<cfgVars, diskVars, ffmpeg, runs, srvVars, ledgerVars,
                   watchVars, coachVars, busVars, sideVars>>

\* cli.py:145-147 update_running_summary raises: nothing is changed
CliSummaryFail ==
    /\ cli_pc = "maybe_summary"
    /\ pending_for_summary # <<>>
    /\ IF AfterSummary = "down"
       THEN CliDown
       ELSE /\ cli_pc' = AfterSummary
            /\ UNCHANGED <<state, keep_audio, chunk_seconds, warned,
                           phase, chunk, text, pending_for_summary, last_processed_index>>
    /\ UNCHANGED <<cfgVars, diskVars, ffmpeg, runs, srvVars, ledgerVars,
                   watchVars, coachVars, busVars, sideVars>>

\* cli.py:138-150 update_running_summary returns the updated summary
CliSummaryOk ==
    /\ cli_pc = "maybe_summary"
    /\ pending_for_summary # <<>>
    /\ state' = Summarized(state,
                    update_running_summary(state.summary, pending_for_summary))
    /\ cli_pc' = "write_summary"
    /\ UNCHANGED <<cfgVars, diskVars, ffmpeg, keep_audio, phase, chunk,
                   text, pending_for_summary, last_processed_index, runs,
                   chunk_seconds, warned, srvVars, ledgerVars, watchVars,
                   coachVars, busVars, sideVars>>

\* cli.py:151 write_summary
CliWriteSummary ==
    /\ cli_pc = "write_summary"
    /\ summary_md' = write_summary(state.summary)
    /\ cli_pc' = "save_summary"
    /\ UNCHANGED <<cfgVars, chunks_dir, failed_dir, transcript_txt,
                   transcript_jsonl, state_json, meeting_prep_json,
                   procVars, phase, chunk, text, pending_for_summary,
                   last_processed_index, runs, chunk_seconds, warned,
                   srvVars, ledgerVars, watchVars, coachVars, busVars,
                   sideVars>>

\* cli.py:152-153 the ledger is saved and the pending buffer emptied
CliSaveSummary ==
    /\ cli_pc = "save_summary"
    /\ state_json' = save_state(state)
    /\ IF AfterSummary = "down"
       THEN CliDown
       ELSE /\ cli_pc' = AfterSummary
            /\ pending_for_summary' = <<>>
            /\ UNCHANGED <<state, keep_audio, chunk_seconds, warned,
                           phase, chunk, text, last_processed_index>>
    /\ UNCHANGED <<cfgVars, chunks_dir, failed_dir, transcript_txt,
                   transcript_jsonl, summary_md, meeting_prep_json, ffmpeg,
                   runs, srvVars, ledgerVars, watchVars, coachVars,
                   busVars, sideVars>>

\* cli.py:239-240 Ctrl+C during the main loop (KeyboardInterrupt is no
\* Exception: process_chunk does not catch it)
CliInterrupt ==
    /\ cli_pc \notin {"down", "finally", "raise_timeout"}
    /\ phase = "loop"
    /\ cli_pc' = "finally"
    /\ chunk' = None
    /\ text' = ""
    /\ UNCHANGED <<cfgVars, diskVars, procVars, phase, pending_for_summary,
                   last_processed_index, runs, chunk_seconds, warned,
                   srvVars, ledgerVars, watchVars, coachVars, busVars,
                   sideVars>>

\* cli.py:241-248 the finally block stops ffmpeg
CliFinally ==
    /\ cli_pc = "finally"
    /\ ffmpeg' = [ffmpeg EXCEPT !.alive = FALSE]
    /\ phase' = "drain"
    /\ cli_pc' = "drain"
    /\ UNCHANGED <<cfgVars, diskVars, state, keep_audio, chunk, text,
                   pending_for_summary, last_processed_index, runs,
                   chunk_seconds, warned, srvVars, ledgerVars, watchVars,
                   coachVars, busVars, sideVars>>

\* cli.py:251-257 one pass of the drain loop
CliDrain ==
    /\ cli_pc = "drain"
    /\ LET c == find_next_chunk(chunks_dir, last_processed_index)
       IN IF c = None
          THEN /\ phase' = "final"
               /\ cli_pc' = "maybe_summary"
               /\ UNCHANGED chunk
          ELSE /\ chunk' = c
               /\ cli_pc' = "stable"
               /\ UNCHANGED phase
    /\ UNCHANGED <<cfgVars, diskVars, procVars, text, pending_for_summary,
                   last_processed_index, runs, chunk_seconds, warned,
                   srvVars, ledgerVars, watchVars, coachVars, busVars,
                   sideVars>>

\* the process is killed: memory and the capture child are lost, files stay
CliCrash ==
    /\ cli_pc \notin {"down", "raise_timeout"}
    /\ CliDown
    /\ ffmpeg' = [ffmpeg EXCEPT !.alive = FALSE]
    /\ UNCHANGED <<cfgVars, diskVars, runs, srvVars, ledgerVars, watchVars,
                   coachVars, busVars, sideVars>>

CliNext ==
    \/ RunStart
    \/ CliPoll
    \/ CliStableTimeout
    \/ CliTimeoutPropagates
    \/ CliTranscribeOk
    \/ CliTranscribeFail
    \/ CliAppendTxt
    \/ CliAppendJsonl
    \/ CliSave
    \/ CliUnlink
    \/ CliQuarantine
    \/ CliErrorJsonl
    \/ CliErrorSave
    \/ CliSummarySkip
    \/ CliSummaryFail
    \/ CliSummaryOk
    \/ CliWriteSummary
    \/ CliSaveSummary
    \/ CliInterrupt
    \/ CliFinally
    \/ CliDrain
    \/ CliCrash

\* ---------------------------------------------------------- server.py
\* server.py:239-273 POST /api/sessions
CreateSession ==
    /\ mode = "server"
    /\ status = "none"
    /\ \E cs \in ChunkSecondsChoices, ka \in BOOLEAN :
        /\ state' = SessionState_new(cs)
        /\ keep_audio' = ka
    /\ state_json' = save_state(state')
    /\ summary_minutes' \in SummaryMinutesChoices
    /\ status' = "created"
    /\ UNCHANGED <<cfgVars, chunks_dir, failed_dir, transcript_txt,
                   transcript_jsonl, summary_md, meeting_prep_json, ffmpeg,
                   cliVars, tasks, processing_task, stop_pc, ledgerVars,
                   watchVars, coachVars, busVars, sideVars>>

\* server.py:337-367 POST /api/sessions/{id}/prep: the status becomes
\* PREPARED whatever it was
SubmitPrep ==
    /\ mode = "server"
    /\ status # "none"
    /\ meeting_prep_json' = TRUE
    /\ status' = "prepared"
    /\ UNCHANGED <<cfgVars, chunks_dir, failed_dir, transcript_txt,
                   transcript_jsonl, state_json, summary_md, procVars,
                   cliVars, summary_minutes, tasks, processing_task,
                   stop_pc, ledgerVars, watchVars, coachVars, busVars,
                   sideVars>>

\* the first task object not yet created (0 when all are used)
NewTask(ts) ==
    IF \E t \in 1..MaxTasks : ts[t].pc = "none"
    THEN CHOOSE t \in 1..MaxTasks :
            /\ ts[t].pc = "none"
            /\ \A u \in 1..MaxTasks : ts[u].pc = "none" => t <= u
    ELSE 0

\* server.py:385-421 POST /api/sessions/{id}/start: a session that is not
\* RECORDING gets a new capture process (numbering its segments from 0, as
\* no segment_start_number is passed) and a new processing task; both
\* replace what active.ffmpeg_process and active.processing_task held
StartSession ==
    /\ mode = "server"
    /\ status \notin {"none", "recording"}
    /\ NewTask(tasks) # 0
    /\ ffmpeg' = [alive |-> TRUE, next |-> 0,
                  segment_time |-> state.chunk_seconds]
    /\ status' = "recording"
    /\ tasks' = [tasks EXCEPT ![NewTask(tasks)] = [NoTask EXCEPT !.pc = "new"]]
    /\ processing_task' = NewTask(tasks)
    /\ UNCHANGED <<cfgVars, diskVars, state, keep_audio, cliVars,
                   summary_minutes, stop_pc, ledgerVars, watchVars,
                   coachVars, busVars, sideVars>>

\* a task that has returned or was cancelled
DoneTask == [NoTask EXCEPT !.pc = "done"]

\* server.py:467-480 the loop condition and the lookup of the next chunk,
\* for a task with locals tk
LoopTop(tk, st, dir, lpi) ==
    IF st # "recording"
    THEN DoneTask
    ELSE IF find_next_completed_chunk(dir, lpi) = None
         THEN [tk EXCEPT !.pc = "top", !.chunk = None, !.err = ""]
         ELSE [tk EXCEPT !.pc = "stable",
                         !.chunk = find_next_completed_chunk(dir, lpi),
                         !.err = ""]

\* server.py:464-465 the locals _process_chunks sets when it first runs
TaskLocals(tk, st, minutes) ==
    IF tk.pc = "new"
    THEN [tk EXCEPT !.last_summary_index = st.last_summarized_index,
                    !.chunks_per_summary = (minutes * 60) \div st.chunk_seconds]
    ELSE tk

\* server.py:458-480, 589 the task runs for the first time, or wakes from
\* one of its sleeps, and goes round the loop
SrvPoll(t) ==
    /\ tasks[t].pc \in {"new", "top", "backoff"}
    /\ tasks' = [tasks EXCEPT ![t] =
                    LoopTop(TaskLocals(tasks[t], state, summary_minutes),
                            status, chunks_dir, state.last_processed_index)]
    /\ UNCHANGED <<cfgVars, diskVars, procVars, cliVars, status,
                   summary_minutes, processing_task, stop_pc, ledgerVars,
                   watchVars, coachVars, busVars, sideVars>>

\* server.py:480, 587-589 wait_for_file_stable raises TimeoutError
SrvStableTimeout(t) ==
    /\ tasks[t].pc = "stable"
    /\ tasks' = [tasks EXCEPT ![t].pc = "backoff", ![t].err = "timeout"]
    /\ UNCHANGED <<cfgVars, diskVars, procVars, cliVars, status,
                   summary_minutes, processing_task, stop_pc, ledgerVars,
                   watchVars, coachVars, busVars, sideVars>>

\* server.py:483-489, 587-589 transcribe_file_gemini raises (a chunk the
\* model cannot transcribe, or a chunk file that is gone)
SrvTranscribeFail(t) ==
    /\ tasks[t].pc = "stable"
    /\ \/ tasks[t].chunk.index \in bad_chunks
       \/ tasks[t].chunk.path \notin chunks_dir
    /\ tasks' = [tasks EXCEPT ![t].pc = "backoff",
                             ![t].err = IF tasks[t].chunk.index \in bad_chunks
                                        THEN "transcribe" ELSE "missing"]
    /\ UNCHANGED <<cfgVars, diskVars, procVars, cliVars, status,
                   summary_minutes, processing_task, stop_pc, ledgerVars,
                   watchVars, coachVars, busVars, sideVars>>

\* server.py:483-527 transcribe_file_gemini returns: the transcript line
\* and record are appended, the watermark advanced, the ledger saved
SrvTranscribeOk(t) ==
    /\ tasks[t].pc = "stable"
    /\ tasks[t].chunk.index \notin bad_chunks
    /\ tasks[t].chunk.path \in chunks_dir
    /\ Len(transcript_jsonl) < MaxLog
    /\ transcript_txt' = append_transcript_text(transcript_txt,
            tasks[t].chunk.index, state.chunk_seconds,
            ResultText(tasks[t].chunk.index))
    /\ transcript_jsonl' = append_jsonl(transcript_jsonl,
            TextRecord(tasks[t].chunk.index, ResultText(tasks[t].chunk.index)))
    /\ state' = Processed(state, tasks[t].chunk.index)
    /\ state_json' = save_state(state')
    /\ tasks' = [tasks EXCEPT ![t].pc = "post"]
    /\ UNCHANGED <<cfgVars, chunks_dir, failed_dir, summary_md,
                   meeting_prep_json, ffmpeg, keep_audio, cliVars, status,
                   summary_minutes, processing_task, stop_pc, ledgerVars,
                   watchVars, coachVars, busVars, sideVars>>

\* server.py:576-577 the summary is due
SummaryDue(tk) == tk.chunk.index - tk.last_summary_index >= tk.chunks_per_summary

\* server.py:597-604 _run_summary raises: the records it loaded are
\* TranscriptChunkData objects, which "for _, text in chunks" cannot unpack
RunSummaryRaises(log, st) == load_transcript_since(log, st.last_summarized_index) # <<>>

\* server.py:576-589 after the broadcasts and the coaching analysis: the
\* summary check, the deletion of the chunk file, and the next round
SrvPost(t) ==
    /\ tasks[t].pc = "post"
    /\ IF SummaryDue(tasks[t]) /\ RunSummaryRaises(transcript_jsonl, state)
       THEN /\ tasks' = [tasks EXCEPT ![t].pc = "backoff", ![t].err = "summary"]
            /\ UNCHANGED chunks_dir
       ELSE /\ chunks_dir' = IF keep_audio THEN chunks_dir
                             ELSE chunks_dir \ {tasks[t].chunk.path}
            /\ tasks' = [tasks EXCEPT ![t] =
                  LoopTop([tasks[t] EXCEPT !.last_summary_index =
                              IF SummaryDue(tasks[t]) THEN tasks[t].chunk.index
                              ELSE @],
                          status, chunks_dir', state.last_processed_index)]
    /\ UNCHANGED <<cfgVars, failed_dir, transcript_txt, transcript_jsonl,
                   state_json, summary_md, meeting_prep_json, procVars,
                   cliVars, status, summary_minutes, processing_task,
                   stop_pc, ledgerVars, watchVars, coachVars, busVars,
                   sideVars>>

\* server.py:424-447 POST /api/sessions/{id}/stop: ffmpeg is stopped and
\* the session's processing task cancelled
StopBegin ==
    /\ mode = "server"
    /\ status = "recording"
    /\ stop_pc = "idle"
    /\ ffmpeg' = [ffmpeg EXCEPT !.alive = FALSE]
    /\ tasks' = [tasks EXCEPT ![processing_task] = DoneTask]
    /\ stop_pc' = "await"
    /\ UNCHANGED <<cfgVars, diskVars, state, keep_audio, cliVars, status,
                   summary_minutes, processing_task, ledgerVars, watchVars,
                   coachVars, busVars, sideVars>>

\* server.py:449-453, 597-604 the handler resumes: the status becomes
\* STOPPED and the forced summary starts
StopMid ==
    /\ stop_pc = "await"
    /\ status' = "stopped"
    /\ stop_pc' = IF RunSummaryRaises(transcript_jsonl, state)
                  THEN "idle" ELSE "summary"
    /\ UNCHANGED <<cfgVars, diskVars, procVars, cliVars, summary_minutes,
                   tasks, processing_task, ledgerVars, watchVars,
                   coachVars, busVars, sideVars>>

\* server.py:607-618 update_running_summary returns (summarize.py:39-40:
\* the previous summary, as the new transcript is empty)
StopSummary ==
    /\ stop_pc = "summary"
    /\ state' = Summarized(state, update_running_summary(state.summary, <<>>))
    /\ state_json' = save_state(state')
    /\ summary_md' = write_summary(state'.summary)
    /\ stop_pc' = "idle"
    /\ UNCHANGED <<cfgVars, chunks_dir, failed_dir, transcript_txt,
                   transcript_jsonl, meeting_prep_json, ffmpeg, keep_audio,
                   cliVars, status, summary_minutes, tasks,
                   processing_task, ledgerVars, watchVars, coachVars,
                   busVars, sideVars>>

SrvNext ==
    \/ CreateSession
    \/ SubmitPrep
    \/ StartSession
    \/ \E t \in 1..MaxTasks : SrvPoll(t)
    \/ \E t \in 1..MaxTasks : SrvStableTimeout(t)
    \/ \E t \in 1..MaxTasks : SrvTranscribeFail(t)
    \/ \E t \in 1..MaxTasks : SrvTranscribeOk(t)
    \/ \E t \in 1..MaxTasks : SrvPost(t)
    \/ StopBegin
    \/ StopMid
    \/ StopSummary

Next ==
    \/ CaptureWrite
    \/ CaptureExit
    \/ CliNext
    \/ SrvNext

Spec == Init /\ [][Next]_vars

\* ------------------------------------------- the watcher functions alone
\* the file names a chunks directory is drawn from
WatchNames == {ChunkPath(i) : i \in 0..MaxChunk} \cup {StrayOutPath, OtherPath}

\* any directory content and any after_index
InitWatcher ==
    /\ mode = "cli"
    /\ blank_chunks = {}
    /\ bad_chunks = {}
    /\ chunks_dir \in SUBSET WatchNames
    /\ after_index \in -1..MaxChunk
    /\ state_json = NoState
    /\ state = NoState
    /\ status = "none"
    /\ InitDisk
    /\ InitProcesses
    /\ InitCalls
    /\ InitEngine
    /\ InitBus
    /\ InitSide

\* chunk_watcher.py:25-33 a call of find_next_chunk
WatchNextChunk ==
    /\ found.fn = "none"
    /\ found' = [fn |-> "find_next_chunk",
                 result |-> find_next_chunk(chunks_dir, after_index)]
    /\ UNCHANGED <<cfgVars, diskVars, procVars, cliVars, srvVars,
                   ledgerVars, after_index, coachVars, busVars, sideVars>>

\* chunk_watcher.py:36-59 a call of find_next_completed_chunk
WatchNextCompletedChunk ==
    /\ found.fn = "none"
    /\ found' = [fn |-> "find_next_completed_chunk",
                 result |-> find_next_completed_chunk(chunks_dir, after_index)]
    /\ UNCHANGED <<cfgVars, diskVars, procVars, cliVars, srvVars,
                   ledgerVars, after_index, coachVars, busVars, sideVars>>

NextWatcher ==
    \/ WatchNextChunk
    \/ WatchNextCompletedChunk

SpecWatcher == InitWatcher /\ [][NextWatcher]_vars

\* ------------------------------- save_state and load_state, step by step
\* a created server session: the ledger is in memory and in state.json
InitLedger ==
    /\ mode = "server"
    /\ blank_chunks = {}
    /\ bad_chunks = {}
    /\ chunks_dir = {}
    /\ after_index = -1
    /\ \E cs \in ChunkSecondsChoices : state = SessionState_new(cs)
    /\ state_json = save_state(state)
    /\ status = "created"
    /\ InitDisk
    /\ InitProcesses
    /\ InitCalls
    /\ InitEngine
    /\ InitBus
    /\ InitSide

\* session_store.py:263-264 Path.write_text opens state.json for writing,
\* which truncates it; the ledger saved is st
SaveOpen(st) ==
    /\ state_json_written = "all"
    /\ state' = st
    /\ saved_before' = state_json
    /\ state_json' = save_state(st)
    /\ state_json_written' = "none"
    /\ UNCHANGED <<cfgVars, chunks_dir, failed_dir, transcript_txt,
                   transcript_jsonl, summary_md, meeting_prep_json, ffmpeg,
                   keep_audio, cliVars, srvVars, load_pc, loaded,
                   watchVars, coachVars, busVars, sideVars>>

\* server.py:526-527 the processing loop advances the watermark and saves
SaveProcessed ==
    /\ state.last_processed_index < MaxChunk
    /\ SaveOpen(Processed(state, state.last_processed_index + 1))

\* server.py:615-617 a summary update saves the ledger
SaveSummarized ==
    /\ state.last_summarized_index < state.last_processed_index
    /\ SaveOpen(Summarized(state,
            update_running_summary(state.summary,
                                   <<Word(state.last_processed_index)>>)))

\* a first part of the text reaches the file (a text longer than the
\* writer's buffer is written in several pieces)
SaveWritePart ==
    /\ state_json_written = "none"
    /\ state_json_written' = "part"
    /\ UNCHANGED <<cfgVars, diskVars, procVars, cliVars, srvVars,
                   saved_before, load_pc, loaded, watchVars, coachVars,
                   busVars, sideVars>>

\* the rest of the text reaches the file and it is closed
SaveClose ==
    /\ state_json_written \in {"none", "part"}
    /\ state_json_written' = "all"
    /\ UNCHANGED <<cfgVars, diskVars, procVars, cliVars, srvVars,
                   saved_before, load_pc, loaded, watchVars, coachVars,
                   busVars, sideVars>>

\* session_store.py:256-260 what load_state returns for the text it reads:
\* json.loads raises on an empty or cut text
LoadResult(file, written) ==
    IF file = NoState THEN [kind |-> "None", st |-> NoState]
    ELSE IF written = "all" THEN [kind |-> "state", st |-> load_state(file)]
         ELSE [kind |-> "JSONDecodeError", st |-> NoState]

\* server.py:131-140, session_store.py:257 a handler's load_state finds
\* that state.json exists
LoadExists ==
    /\ load_pc = "idle"
    /\ state_json # NoState
    /\ load_pc' = "read"
    /\ loaded' = NoLoad
    /\ UNCHANGED <<cfgVars, diskVars, procVars, cliVars, srvVars,
                   state_json_written, saved_before, watchVars, coachVars,
                   busVars, sideVars>>

\* session_store.py:259-260 it reads the file and parses the text
LoadRead ==
    /\ load_pc = "read"
    /\ loaded' = LoadResult(state_json, state_json_written)
    /\ load_pc' = "idle"
    /\ UNCHANGED <<cfgVars, diskVars, procVars, cliVars, srvVars,
                   state_json_written, saved_before, watchVars, coachVars,
                   busVars, sideVars>>

NextLedger ==
    \/ SaveProcessed
    \/ SaveSummarized
    \/ SaveWritePart
    \/ SaveClose
    \/ LoadExists
    \/ LoadRead

SpecLedger == InitLedger /\ [][NextLedger]_vars

\* ---------------------------------- the server under its event loop
InitServer == Init /\ mode = "server"

NextServer ==
    \/ CaptureWrite
    \/ CaptureExit
    \/ SrvNext

\* the event loop resumes a task whose sleep is over or whose awaited call
\* has returned; a transcription call started again and again returns; a
\* stop handler that awaits the cancelled task or the summary call resumes
FairServer ==
    /\ \A t \in 1..MaxTasks :
            /\ WF_vars(SrvPoll(t))
            /\ WF_vars(SrvPost(t))
            /\ SF_vars(SrvTranscribeOk(t) \/ SrvTranscribeFail(t))
    /\ WF_vars(StopMid)
    /\ WF_vars(StopSummary)

SpecServerFair == InitServer /\ [][NextServer]_vars /\ FairServer


\* ------------------------------ the coaching engine shared by the sessions
\* coaching.py:431-440, server.py:463: every _process_chunks task gets the
\* one module-level engine, so the engine variables are not per session.
\* An analyze_chunk call runs without interruption from one await that
\* suspends to the next: EventBus.publish puts on unbounded queues
\* (events.py:65, 103-126) and does not suspend; _analyze_with_llm awaits
\* asyncio.to_thread (coaching.py:335) and does.
InitCoaching ==
    /\ mode = "server"
    /\ blank_chunks = {}
    /\ bad_chunks = {}
    /\ chunks_dir = {}
    /\ after_index = -1
    /\ state_json = NoState
    /\ state = NoState
    /\ status = "none"
    /\ InitDisk
    /\ InitProcesses
    /\ InitCalls
    /\ InitEngine
    /\ InitBus
    /\ InitSide

\* no other session's task is between two suspension points
Quiet(s) == \A u \in Sessions \ {s} : calls[u].pc \in {"idle", "llm", "post"}

\* RECURSIVE sum of the calls made by the sessions of S
RECURSIVE CallsOf(_)
CallsOf(S) ==
    IF S = {} THEN 0
    ELSE LET s == CHOOSE u \in S : TRUE
         IN calls[s].n + CallsOf(S \ {s})

\* analyze_chunk calls made so far
CallsMade == CallsOf(Sessions)

\* time passes
Tick ==
    /\ \E t \in Instants : t > now /\ now' = t
    /\ UNCHANGED <<cfgVars, diskVars, procVars, cliVars, srvVars,
                   ledgerVars, watchVars, chunk_alert_count,
                   last_alert_times, recent_transcript, calls,
                   coaching_jsonl, bus, broadcast, busVars, sideVars>>

\* server.py:557-558, coaching.py:219-239: the loop of session s calls
\* analyze_chunk; without meeting prep the call returns an empty result
AnalyzeBegin(s) ==
    /\ calls[s].pc = "idle"
    /\ CallsMade < MaxCalls
    /\ Quiet(s)
    /\ chunk_alert_count' = 0
    /\ \E prep \in BOOLEAN, m \in MentionChoices :
        /\ prep \/ m = 0
        /\ recent_transcript' =
              UpdateWindow(recent_transcript, [session |-> s, mentions |-> m])
        /\ calls' = [calls EXCEPT ![s] =
              IF prep
              THEN [pc |-> "competitor", n |-> @.n + 1, mentions |-> m,
                    llm_alerts |-> <<>>, result |-> <<>>,
                    llm_error |-> FALSE]
              ELSE NoCall(@.n + 1)]
    /\ UNCHANGED <<cfgVars, diskVars, procVars, cliVars, srvVars,
                   ledgerVars, watchVars, now, last_alert_times,
                   coaching_jsonl, bus, broadcast, busVars, sideVars>>

\* coaching.py:244-255 a mention passes _can_send_alert: the alert is added
\* to the result, appended to the alert log and recorded
CompetitorAlert(s) ==
    /\ calls[s].pc = "competitor"
    /\ calls[s].mentions > 0
    /\ can_send_alert(chunk_alert_count, last_alert_times,
                      "competitor_mention", now)
    /\ LET alert == CoachingAlert(s, calls[s].n, "competitor_mention", now)
       IN /\ calls' = [calls EXCEPT ![s].result = Append(@, alert),
                                    ![s].mentions = @ - 1,
                                    ![s].pc = "publish_competitor"]
          /\ coaching_jsonl' = [coaching_jsonl EXCEPT ![s] = Append(@, alert)]
    /\ last_alert_times' =
          record_alert_times(last_alert_times, "competitor_mention", now)
    /\ chunk_alert_count' = chunk_alert_count + 1
    /\ UNCHANGED <<cfgVars, diskVars, procVars, cliVars, srvVars,
                   ledgerVars, watchVars, now, recent_transcript, bus,
                   broadcast, busVars, sideVars>>

\* coaching.py:254, server.py:587-589 append_coaching_alert raises in the
\* competitor loop: analyze_chunk ends with the exception, the result is lost
CompetitorAppendFails(s) ==
    /\ calls[s].pc = "competitor"
    /\ calls[s].mentions > 0
    /\ can_send_alert(chunk_alert_count, last_alert_times,
                      "competitor_mention", now)
    /\ calls' = [calls EXCEPT ![s] = NoCall(@.n)]
    /\ UNCHANGED <<cfgVars, diskVars, procVars, cliVars, srvVars,
                   ledgerVars, watchVars, now, chunk_alert_count,
                   last_alert_times, recent_transcript, coaching_jsonl,
                   bus, broadcast, busVars, sideVars>>

\* coaching.py:256-262 the competitor alert is published
CompetitorPublish(s) ==
    /\ calls[s].pc = "publish_competitor"
    /\ bus' = [bus EXCEPT ![s] =
                  Append(@, calls[s].result[Len(calls[s].result)])]
    /\ calls' = [calls EXCEPT ![s].pc = "competitor"]
    /\ UNCHANGED <<cfgVars, diskVars, procVars, cliVars, srvVars,
                   ledgerVars, watchVars, now, chunk_alert_count,
                   last_alert_times, recent_transcript, coaching_jsonl,
                   broadcast, busVars, sideVars>>

\* coaching.py:244-246, 265-271 the competitor loop ends (no mention left,
\* or break); the LLM call is awaited if the limit is not reached
CompetitorDone(s) ==
    /\ calls[s].pc = "competitor"
    /\ \/ calls[s].mentions = 0
       \/ ~can_send_alert(chunk_alert_count, last_alert_times,
                          "competitor_mention", now)
    /\ calls' = [calls EXCEPT ![s].pc =
                    IF chunk_alert_count < max_alerts_per_chunk
                    THEN "llm" ELSE "broadcast"]
    /\ UNCHANGED <<cfgVars, diskVars, procVars, cliVars, srvVars,
                   ledgerVars, watchVars, now, chunk_alert_count,
                   last_alert_times, recent_transcript, coaching_jsonl,
                   bus, broadcast, busVars, sideVars>>

\* coaching.py:271, 335 the model call awaited by _analyze_with_llm raises
LlmRaises(s) ==
    /\ calls[s].pc = "llm"
    /\ Quiet(s)
    /\ calls' = [calls EXCEPT ![s] = LlmError(@)]
    /\ UNCHANGED <<cfgVars, diskVars, procVars, cliVars, srvVars,
                   ledgerVars, watchVars, now, chunk_alert_count,
                   last_alert_times, recent_transcript, coaching_jsonl,
                   bus, broadcast, busVars, sideVars>>

\* coaching.py:271 _analyze_with_llm returns its alerts
LlmReturn(s) ==
    /\ calls[s].pc = "llm"
    /\ Quiet(s)
    /\ \E l \in LlmChoices :
          calls' = [calls EXCEPT ![s].llm_alerts = l, ![s].pc = "llm_alerts"]
    /\ UNCHANGED <<cfgVars, diskVars, procVars, cliVars, srvVars,
                   ledgerVars, watchVars, now, chunk_alert_count,
                   last_alert_times, recent_transcript, coaching_jsonl,
                   bus, broadcast, busVars, sideVars>>

\* coaching.py:272-277 the next LLM alert: skipped when _can_send_alert
\* refuses it, otherwise added to the result, appended and recorded
LlmAlert(s) ==
    /\ calls[s].pc = "llm_alerts"
    /\ calls[s].llm_alerts # <<>>
    /\ LET ty    == Head(calls[s].llm_alerts)
           alert == CoachingAlert(s, calls[s].n, ty, now)
       IN IF can_send_alert(chunk_alert_count, last_alert_times, ty, now)
          THEN /\ calls' = [calls EXCEPT ![s].result = Append(@, alert),
                                         ![s].llm_alerts = Tail(@),
                                         ![s].pc = "publish_llm"]
               /\ coaching_jsonl' =
                     [coaching_jsonl EXCEPT ![s] = Append(@, alert)]
               /\ last_alert_times' =
                     record_alert_times(last_alert_times, ty, now)
               /\ chunk_alert_count' = chunk_alert_count + 1
          ELSE /\ calls' = [calls EXCEPT ![s].llm_alerts = Tail(@)]
               /\ UNCHANGED <<coaching_jsonl, last_alert_times,
                              chunk_alert_count>>
    /\ UNCHANGED <<cfgVars, diskVars, procVars, cliVars, srvVars,
                   ledgerVars, watchVars, now, recent_transcript, bus,
                   broadcast, busVars, sideVars>>

\* coaching.py:275-276, 285-289 append_coaching_alert raises for an LLM
\* alert already added to the result: the exception is caught and printed,
\* and analyze_chunk returns the result
LlmAppendFails(s) ==
    /\ calls[s].pc = "llm_alerts"
    /\ calls[s].llm_alerts # <<>>
    /\ LET ty    == Head(calls[s].llm_alerts)
           alert == CoachingAlert(s, calls[s].n, ty, now)
       IN /\ can_send_alert(chunk_alert_count, last_alert_times, ty, now)
          /\ calls' = [calls EXCEPT ![s].result = Append(@, alert),
                                    ![s].llm_alerts = <<>>,
                                    ![s].pc = "broadcast"]
    /\ UNCHANGED <<cfgVars, diskVars, procVars, cliVars, srvVars,
                   ledgerVars, watchVars, now, chunk_alert_count,
                   last_alert_times, recent_transcript, coaching_jsonl,
                   bus, broadcast, busVars, sideVars>>

\* coaching.py:278-284 the LLM alert is published
LlmPublish(s) ==
    /\ calls[s].pc = "publish_llm"
    /\ bus' = [bus EXCEPT ![s] =
                  Append(@, calls[s].result[Len(calls[s].result)])]
    /\ calls' = [calls EXCEPT ![s].pc = "llm_alerts"]
    /\ UNCHANGED <<cfgVars, diskVars, procVars, cliVars, srvVars,
                   ledgerVars, watchVars, now, chunk_alert_count,
                   last_alert_times, recent_transcript, coaching_jsonl,
                   broadcast, busVars, sideVars>>

\* coaching.py:272, 289 the list is exhausted: analyze_chunk returns
LlmDone(s) ==
    /\ calls[s].pc = "llm_alerts"
    /\ calls[s].llm_alerts = <<>>
    /\ calls' = [calls EXCEPT ![s].pc = "broadcast"]
    /\ UNCHANGED <<cfgVars, diskVars, procVars, cliVars, srvVars,
                   ledgerVars, watchVars, now, chunk_alert_count,
                   last_alert_times, recent_transcript, coaching_jsonl,
                   bus, broadcast, busVars, sideVars>>

\* server.py:565-573 the loop broadcasts the alerts of the result
Broadcast(s) ==
    /\ calls[s].pc = "broadcast"
    /\ broadcast' = [broadcast EXCEPT ![s] = @ \o calls[s].result]
    /\ calls' = [calls EXCEPT ![s].pc = "post"]
    /\ UNCHANGED <<cfgVars, diskVars, procVars, cliVars, srvVars,
                   ledgerVars, watchVars, now, chunk_alert_count,
                   last_alert_times, recent_transcript, coaching_jsonl,
                   bus, busVars, sideVars>>

\* server.py:575-583 the loop goes on to the summary check and the deletion
\* of the chunk file, and to its next round
AfterCoaching(s) ==
    /\ calls[s].pc = "post"
    /\ calls' = [calls EXCEPT ![s] = NoCall(@.n)]
    /\ UNCHANGED <<cfgVars, diskVars, procVars, cliVars, srvVars,
                   ledgerVars, watchVars, now, chunk_alert_count,
                   last_alert_times, recent_transcript, coaching_jsonl,
                   bus, broadcast, busVars, sideVars>>

NextCoaching ==
    \/ Tick
    \/ \E s \in Sessions : AnalyzeBegin(s)
    \/ \E s \in Sessions : CompetitorAlert(s)
    \/ \E s \in Sessions : CompetitorAppendFails(s)
    \/ \E s \in Sessions : CompetitorPublish(s)
    \/ \E s \in Sessions : CompetitorDone(s)
    \/ \E s \in Sessions : LlmRaises(s)
    \/ \E s \in Sessions : LlmReturn(s)
    \/ \E s \in Sessions : LlmAlert(s)
    \/ \E s \in Sessions : LlmAppendFails(s)
    \/ \E s \in Sessions : LlmPublish(s)
    \/ \E s \in Sessions : LlmDone(s)
    \/ \E s \in Sessions : Broadcast(s)
    \/ \E s \in Sessions : AfterCoaching(s)

SpecCoaching == InitCoaching /\ [][NextCoaching]_vars

\* ------------------------------------------------- the event bus and clients
\* publish never suspends: its queues are unbounded (events.py:65), so
\* `await queue.put` returns at once, and handlers are plain callables.  The
\* only code that runs during a publish call is the handlers it calls, which
\* may themselves call the bus.  Clients call the bus between publish calls.
QueuesMade == Cardinality({q \in 1..MaxQueues : queues[q].made})

\* a call of subscribe, unsubscribe, on or off, or no call
Call(op, key, handler, q) == [op |-> op, key |-> key, h |-> handler, q |-> q]

\* what a handler may do while publish is calling it
HandlerCalls ==
    {Call("none", "*", "h1", 0)}
    \cup {Call(op, k, h, 0) :
              op \in {"on", "off"}, k \in ClientKeys, h \in Handlers}
    \cup {Call("subscribe", k, "h1", 0) : k \in ClientKeys}
    \cup {Call("unsubscribe", k, "h1", q) :
              k \in ClientKeys, q \in 1..MaxQueues}

\* events.py:55-101 the effect of the call c on the bus
BusCall(c) ==
    /\ c.op = "on" => registrations < MaxOn
    /\ c.op = "subscribe" => QueuesMade < MaxQueues
    /\ c.op = "unsubscribe" => queues[c.q].made
    /\ LET q == QueuesMade + 1
           reg == registrations + 1
       IN /\ async_subscribers' =
                CASE c.op = "subscribe" ->
                         subscribe(async_subscribers, c.key, q)
                  [] c.op = "unsubscribe" ->
                         unsubscribe(async_subscribers, c.key, c.q)
                  [] OTHER -> async_subscribers
          /\ sync_handlers' =
                CASE c.op = "on" -> on(sync_handlers, c.key, c.h, reg)
                  [] c.op = "off" -> off(sync_handlers, c.key, c.h)
                  [] OTHER -> sync_handlers
          /\ queues' = IF c.op = "subscribe"
                       THEN [queues EXCEPT
                                ![q] = NewQueue(c.key, Len(event_log))]
                       ELSE queues
          /\ registrations' = IF c.op = "on" THEN reg ELSE registrations

\* events.py:55-67 a client subscribes to an event type
Subscribe(k) ==
    /\ publishing.pc = "idle"
    /\ BusCall(Call("subscribe", k, "h1", 0))
    /\ UNCHANGED <<cfgVars, diskVars, procVars, cliVars, srvVars,
                   ledgerVars, watchVars, coachVars, publishing, event_log,
                   sideVars>>

\* events.py:69-75 a client subscribes to every event type
SubscribeAll ==
    /\ publishing.pc = "idle"
    /\ BusCall(Call("subscribe", "*", "h1", 0))
    /\ UNCHANGED <<cfgVars, diskVars, procVars, cliVars, srvVars,
                   ledgerVars, watchVars, coachVars, publishing, event_log,
                   sideVars>>

\* events.py:77-83
Unsubscribe(k, q) ==
    /\ publishing.pc = "idle"
    /\ BusCall(Call("unsubscribe", k, "h1", q))
    /\ UNCHANGED <<cfgVars, diskVars, procVars, cliVars, srvVars,
                   ledgerVars, watchVars, coachVars, publishing, event_log,
                   sideVars>>

\* events.py:85-93
On(k, h) ==
    /\ publishing.pc = "idle"
    /\ BusCall(Call("on", k, h, 0))
    /\ UNCHANGED <<cfgVars, diskVars, procVars, cliVars, srvVars,
                   ledgerVars, watchVars, coachVars, publishing, event_log,
                   sideVars>>

\* events.py:95-101
Off(k, h) ==
    /\ publishing.pc = "idle"
    /\ BusCall(Call("off", k, h, 0))
    /\ UNCHANGED <<cfgVars, diskVars, procVars, cliVars, srvVars,
                   ledgerVars, watchVars, coachVars, publishing, event_log,
                   sideVars>>

\* a consumer takes the oldest event of its queue (queue.get)
QueueGet(q) ==
    /\ publishing.pc = "idle"
    /\ queues[q].items # <<>>
    /\ queues' = [queues EXCEPT ![q].items = Tail(@), ![q].taken = @ + 1]
    /\ UNCHANGED <<cfgVars, diskVars, procVars, cliVars, srvVars,
                   ledgerVars, watchVars, coachVars, async_subscribers,
                   sync_handlers, publishing, event_log, registrations,
                   sideVars>>

\* events.py:108-117 publish puts the event on the queues of its type, then
\* on the wildcard queues, and comes to the handlers of its type
PublishBegin(k) ==
    /\ publishing.pc = "idle"
    /\ Len(event_log) < MaxEvents
    /\ LET event == Event(Len(event_log) + 1, k)
           targets == Targets(async_subscribers, k)
       IN /\ queues' = [q \in 1..MaxQueues |->
                IF \E j \in 1..Len(targets) : targets[j].id = q
                THEN QueuePut(queues[q], event) ELSE queues[q]]
          /\ event_log' = Append(event_log, event)
          /\ publishing' =
                [pc |-> "handlers", event |-> event, i |-> 0,
                 calls |-> [j \in 1..Len(targets) |->
                              [phase |-> targets[j].phase,
                               kind |-> "queue",
                               reg |-> targets[j].reg]],
                 stayed |-> RegsOf(async_subscribers, sync_handlers,
                                   {k, "*"})]
    /\ UNCHANGED <<cfgVars, diskVars, procVars, cliVars, srvVars,
                   ledgerVars, watchVars, coachVars, async_subscribers,
                   sync_handlers, registrations, sideVars>>

\* the list the `for handler in ...` loop of publish is iterating: the list
\* object itself, not a copy (events.py:120, 124)
HandlerList ==
    sync_handlers[IF publishing.pc = "handlers"
                  THEN publishing.event.type ELSE "*"]

\* the loop's next handler is called and recorded
Called ==
    [publishing EXCEPT
        !.i = @ + 1,
        !.calls = Append(@, [phase |-> IF publishing.pc = "handlers"
                                       THEN 3 ELSE 4,
                             kind |-> "handler",
                             reg |-> HandlerList[publishing.i + 1].reg])]

\* history: the registrations of S that the call c of a handler leaves
\* registered; off(k, h) counts as removing every registration of h under k
Stayed(S, c) ==
    {r \in S :
        /\ r.kind = "queue" =>
              ~(c.op = "unsubscribe" /\ c.q = r.reg /\ queues[c.q].key = c.key)
        /\ r.kind = "handler" =>
              ~(/\ c.op = "off"
                /\ \E i \in 1..Len(sync_handlers[c.key]) :
                      /\ sync_handlers[c.key][i].reg = r.reg
                      /\ sync_handlers[c.key][i].id = c.h)}

\* events.py:120-121, 124-125 the loop takes the entry at its index from the
\* list and calls it; the handler may call the bus and returns
HandlerCall ==
    /\ publishing.pc \in {"handlers", "wildcard_handlers"}
    /\ publishing.i < Len(HandlerList)
    /\ \E c \in HandlerCalls :
        /\ BusCall(c)
        /\ publishing' = [Called EXCEPT !.stayed = Stayed(@, c)]
    /\ UNCHANGED <<cfgVars, diskVars, procVars, cliVars, srvVars,
                   ledgerVars, watchVars, coachVars, event_log, sideVars>>

\* events.py:121, 125 the handler raises: the exception leaves publish
HandlerRaises ==
    /\ publishing.pc \in {"handlers", "wildcard_handlers"}
    /\ publishing.i < Len(HandlerList)
    /\ publishing' = NoPublish
    /\ UNCHANGED <<cfgVars, diskVars, procVars, cliVars, srvVars,
                   ledgerVars, watchVars, coachVars, async_subscribers,
                   sync_handlers, queues, event_log, registrations,
                   sideVars>>

\* events.py:120-124 the loop over the handlers of the type is exhausted
HandlersEnd ==
    /\ publishing.pc = "handlers"
    /\ publishing.i >= Len(HandlerList)
    /\ publishing' = [publishing EXCEPT !.pc = "wildcard_handlers", !.i = 0]
    /\ UNCHANGED <<cfgVars, diskVars, procVars, cliVars, srvVars,
                   ledgerVars, watchVars, coachVars, async_subscribers,
                   sync_handlers, queues, event_log, registrations,
                   sideVars>>

\* events.py:124-126 the loop over the wildcard handlers is exhausted and
\* publish returns
PublishEnd ==
    /\ publishing.pc = "wildcard_handlers"
    /\ publishing.i >= Len(HandlerList)
    /\ publishing' = NoPublish
    /\ UNCHANGED <<cfgVars, diskVars, procVars, cliVars, srvVars,
                   ledgerVars, watchVars, coachVars, async_subscribers,
                   sync_handlers, queues, event_log, registrations,
                   sideVars>>

NextBus ==
    \/ \E k \in ClientKeys \ {"*"} : Subscribe(k)
    \/ SubscribeAll
    \/ \E k \in ClientKeys, q \in 1..MaxQueues : Unsubscribe(k, q)
    \/ \E k \in ClientKeys, h \in Handlers : On(k, h)
    \/ \E k \in ClientKeys, h \in Handlers : Off(k, h)
    \/ \E q \in 1..MaxQueues : QueueGet(q)
    \/ \E k \in EventTypes : PublishBegin(k)
    \/ HandlerCall
    \/ HandlerRaises
    \/ HandlersEnd
    \/ PublishEnd

\* the bus of a new process, its clients and its publishers
SpecBus == InitCoaching /\ [][NextBus]_vars
\* ------------------------------------------- the startup resumption alone
\* the ledgers a session directory may hold when run() starts: none, or one
\* written by save_state
Ledgers ==
    {NoState} \cup
    [chunk_seconds : ChunkSecondsChoices,
     last_processed_index : -1..MaxChunk,
     last_summarized_index : -1..MaxChunk,
     summary : {<<>>, <<Word(0)>>}]

\* the transcript logs the directory may hold
ResumeLogs ==
    {<<>>, <<TextRecord(0, Word(0))>>,
     <<TextRecord(0, Word(0)), ErrorRecord(1)>>}

\* a session directory with any ledger, and no run
InitResume ==
    /\ mode = "cli"
    /\ blank_chunks = {}
    /\ bad_chunks = {}
    /\ chunks_dir = {}
    /\ state_json \in Ledgers
    /\ state = NoState
    /\ status = "none"
    /\ after_index = -1
    /\ failed_dir = {}
    /\ transcript_txt = <<>>
    /\ transcript_jsonl \in ResumeLogs
    /\ summary_md = <<>>
    /\ meeting_prep_json = FALSE
    /\ InitProcesses
    /\ InitCalls
    /\ InitEngine
    /\ InitBus
    /\ InitSide

\* run() is started and killed before it handles a chunk, again and again
NextResume ==
    \/ RunStart
    \/ CliCrash

SpecResume == InitResume /\ [][NextResume]_vars

\* ------------------------------------------------ talking point coverage
\* texts are sequences of words; the topics of a prep are single words
Topics == {"pricing", "SLA"}
ChunkWords == {"pricing", "Pricing", "pricings", "sla", "hello"}

\* str.lower()
lower(w) ==
    CASE w = "SLA" -> "sla"
      [] w = "Pricing" -> "pricing"
      [] OTHER -> w

\* the talking points of the requests made, in order
PrepRequests == {<<>>, <<"pricing">>, <<"SLA">>, <<"pricing", "SLA">>}

\* the chunk texts analysed
PrepTexts ==
    {<<>>} \cup {<<w>> : w \in ChunkWords}
    \cup {<<"hello", "sla">>, <<"pricings", "Pricing">>}

\* session_store.py:46-53 a new TalkingPoint; mentioned_at None is 0
TalkingPoint(topic) == [topic |-> topic, mentioned |-> FALSE, mentioned_at |-> 0]

\* meeting_prep.py:105-118 re.search of \btopic\b in the lowered text
check_topic_mentioned(transcript, topic) ==
    \E k \in 1..Len(transcript) : lower(transcript[k]) = lower(topic)

\* meeting_prep.py:168-174 the points after the loop of update_topic_coverage
Covered(points, transcript, t) ==
    [k \in 1..Len(points) |->
        IF ~points[k].mentioned
           /\ check_topic_mentioned(transcript, points[k].topic)
        THEN [points[k] EXCEPT !.mentioned = TRUE, !.mentioned_at = t]
        ELSE points[k]]

\* server.py:337-367 submit_meeting_prep builds the prep from the request
\* and saves it over meeting_prep.json
PrepSubmit(req) ==
    /\ talking_points' = [k \in 1..Len(req) |-> TalkingPoint(req[k])]
    /\ meeting_prep_json' = TRUE
    /\ status' = "prepared"
    /\ UNCHANGED <<cfgVars, chunks_dir, failed_dir, transcript_txt,
                   transcript_jsonl, state_json, summary_md, procVars,
                   cliVars, summary_minutes, tasks, processing_task,
                   stop_pc, ledgerVars, watchVars, coachVars, busVars,
                   transcript_chunk, response_data, parsed_alerts,
                   websocket_connections, websockets, broadcasting,
                   dismiss_result, invocation>>

\* coaching.py:265, meeting_prep.py:153-179 update_topic_coverage on the
\* text of a processed chunk: nothing without a prep on disk
PrepChunk(t) ==
    /\ transcript_chunk' = t
    /\ talking_points' = IF meeting_prep_json
                         THEN Covered(talking_points, t, now)
                         ELSE talking_points
    /\ UNCHANGED <<cfgVars, diskVars, procVars, cliVars, srvVars,
                   ledgerVars, watchVars, coachVars, busVars,
                   response_data, parsed_alerts, websocket_connections,
                   websockets, broadcasting, dismiss_result, invocation>>

NextPrep ==
    \/ \E req \in PrepRequests : PrepSubmit(req)
    \/ \E t \in PrepTexts : PrepChunk(t)
    \/ Tick

\* one session of the server, its prep and its chunks
SpecPrep == InitCoaching /\ [][NextPrep]_vars

\* ------------------------------------------ the coaching response parsed
\* a string is a sequence of pieces: <<>> is the empty string; a key of an
\* entry that is absent has the value Absent
Absent == <<"<absent>">>
SomeText == <<"t">>
FieldValues == {Absent, <<>>, SomeText}

\* dict.get(key, default)
Get(value, default) == IF value = Absent THEN default ELSE value

\* entries of the five lists of a response
ObjectionEntries == [detected : FieldValues]
QuestionEntries == [question : FieldValues]
TopicEntries == [topic : FieldValues]
CompetitorEntries == [competitor : FieldValues, context : {<<>>, SomeText}]
ObservationEntries == [type : {<<"opportunity">>, <<"note">>, Absent},
                       content : FieldValues]

\* the lists of at most n entries of S
ListsUpTo(S, n) == UNION {[1..k -> S] : k \in 0..n}

\* bounds: entries per list of a response
MaxObjections == 2
MaxEntries == 1

\* the responses json.loads may return
Responses ==
    [objections : ListsUpTo(ObjectionEntries, MaxObjections),
     suggested_questions : ListsUpTo(QuestionEntries, MaxEntries),
     missing_topics : ListsUpTo(TopicEntries, MaxEntries),
     competitor_insights : ListsUpTo(CompetitorEntries, MaxEntries),
     observations : ListsUpTo(ObservationEntries, MaxEntries)]

\* a CoachingAlert before it gets an id (coaching.py:364-369)
CandidateAlert(alert_type, content) ==
    [alert_type |-> alert_type, content |-> content]

\* `if alert.content: alerts.append(alert)` over a list of candidates
NonEmpty(candidates) == SelectSeq(candidates, LAMBDA a : a.content # <<>>)

\* coaching.py:362-421 the alerts built from the parsed response
ParseAlerts(d) ==
    NonEmpty([k \in 1..Len(d.objections) |->
        CandidateAlert("objection", Get(d.objections[k].detected, <<>>))])
    \o NonEmpty([k \in 1..Len(d.suggested_questions) |->
        CandidateAlert("suggested_question",
                       Get(d.suggested_questions[k].question, <<>>))])
    \o NonEmpty([k \in 1..Len(d.missing_topics) |->
        CandidateAlert("missing_topic",
                       <<"Haven't mentioned: ">>
                       \o Get(d.missing_topics[k].topic, <<>>))])
    \o NonEmpty([k \in 1..Len(d.competitor_insights) |->
        CandidateAlert("competitor_mention",
                       Get(d.competitor_insights[k].competitor, <<>>)
                       \o <<": ">>
                       \o Get(d.competitor_insights[k].context, <<>>))])
    \o NonEmpty([k \in 1..Len(d.observations) |->
        CandidateAlert("custom_reminder",
                       IF Get(d.observations[k].type, <<>>)
                              \in {<<"opportunity">>, <<"warning">>}
                       THEN Get(d.observations[k].content, <<>>)
                       ELSE <<>>)])

\* the model has answered with any response
InitLlm ==
    /\ mode = "server"
    /\ blank_chunks = {}
    /\ bad_chunks = {}
    /\ chunks_dir = {}
    /\ after_index = -1
    /\ state_json = NoState
    /\ state = NoState
    /\ status = "none"
    /\ InitDisk
    /\ InitProcesses
    /\ InitCalls
    /\ InitEngine
    /\ InitBus
    /\ talking_points = <<>>
    /\ transcript_chunk = <<>>
    /\ parsed_alerts = NotParsed
    /\ websocket_connections = <<>>
    /\ websockets = [l \in Listeners |-> "none"]
    /\ broadcasting = NoBroadcast
    /\ dismiss_result = NoDismiss
    /\ invocation = NoInvocation
    /\ response_data \in Responses

\* coaching.py:362-423 _analyze_with_llm goes through the response and
\* returns its alerts
LlmParse ==
    /\ ~parsed_alerts.done
    /\ parsed_alerts' = [done |-> TRUE, alerts |-> ParseAlerts(response_data)]
    /\ UNCHANGED <<cfgVars, diskVars, procVars, cliVars, srvVars,
                   ledgerVars, watchVars, coachVars, busVars,
                   talking_points, transcript_chunk, response_data,
                   websocket_connections, websockets, broadcasting,
                   dismiss_result, invocation>>

SpecLlm == InitLlm /\ [][LlmParse]_vars

\* --------------------------------------------- broadcasts to the listeners
\* list.remove(x) of a list of listeners: the first x is removed
RemoveFirst(list, x) ==
    LET k == CHOOSE j \in 1..Len(list) :
                 list[j] = x /\ \A m \in 1..(j - 1) : list[m] # x
    IN SubSeq(list, 1, k - 1) \o SubSeq(list, k + 1, Len(list))

Listed(list, x) == \E k \in 1..Len(list) : list[k] = x

\* server.py:161-162 `for ws in dead_connections: list.remove(ws)`; a
\* listener that is no longer in the list makes remove raise ValueError
RECURSIVE RemoveAll(_, _)
RemoveAll(list, dead) ==
    IF dead = <<>> THEN [raised |-> FALSE, list |-> list]
    ELSE IF ~Listed(list, Head(dead)) THEN [raised |-> TRUE, list |-> list]
         ELSE RemoveAll(RemoveFirst(list, Head(dead)), Tail(dead))

\* server.py:715-723 websocket_endpoint accepts and registers the listener
WsConnect(l) ==
    /\ websockets[l] = "none"
    /\ websockets' = [websockets EXCEPT ![l] = "open"]
    /\ websocket_connections' = Append(websocket_connections, l)
    /\ UNCHANGED <<cfgVars, diskVars, procVars, cliVars, srvVars,
                   ledgerVars, watchVars, coachVars, busVars,
                   talking_points, transcript_chunk, response_data,
                   parsed_alerts, broadcasting, dismiss_result, invocation>>

\* the client closes its socket: sends to it fail from now on
WsClose(l) ==
    /\ websockets[l] = "open"
    /\ websockets' = [websockets EXCEPT ![l] = "closed"]
    /\ broadcasting' = [broadcasting EXCEPT !.whole = @ \ {l}]
    /\ UNCHANGED <<cfgVars, diskVars, procVars, cliVars, srvVars,
                   ledgerVars, watchVars, coachVars, busVars,
                   talking_points, transcript_chunk, response_data,
                   parsed_alerts, websocket_connections, dismiss_result,
                   invocation>>

\* server.py:741-757 receive_json raises WebSocketDisconnect and the
\* endpoint unregisters the listener in its finally block
WsDisconnect(l) ==
    /\ websockets[l] = "closed"
    /\ websockets' = [websockets EXCEPT ![l] = "gone"]
    /\ websocket_connections' =
          IF Listed(websocket_connections, l)
          THEN RemoveFirst(websocket_connections, l)
          ELSE websocket_connections
    /\ UNCHANGED <<cfgVars, diskVars, procVars, cliVars, srvVars,
                   ledgerVars, watchVars, coachVars, busVars,
                   talking_points, transcript_chunk, response_data,
                   parsed_alerts, broadcasting, dismiss_result, invocation>>

\* server.py:148-153 broadcast_to_session is called by the processing loop
BroadcastBegin ==
    /\ broadcasting.pc \in {"idle", "done", "raised"}
    /\ broadcasting' =
          [pc |-> "loop", i |-> 0, dead_connections |-> <<>>, sent |-> <<>>,
           whole |-> {l \in Listeners :
                        /\ websockets[l] = "open"
                        /\ Listed(websocket_connections, l)}]
    /\ UNCHANGED <<cfgVars, diskVars, procVars, cliVars, srvVars,
                   ledgerVars, watchVars, coachVars, busVars,
                   talking_points, transcript_chunk, response_data,
                   parsed_alerts, websocket_connections, websockets,
                   dismiss_result, invocation>>

\* server.py:154-158 the loop takes the entry at its index from the list and
\* awaits send_json, which raises for a closed socket
BroadcastSend ==
    /\ broadcasting.pc = "loop"
    /\ broadcasting.i < Len(websocket_connections)
    /\ LET ws == websocket_connections[broadcasting.i + 1]
       IN broadcasting' =
            IF websockets[ws] = "open"
            THEN [broadcasting EXCEPT !.i = @ + 1, !.sent = Append(@, ws)]
            ELSE [broadcasting EXCEPT
                     !.i = @ + 1,
                     !.dead_connections = Append(@, ws)]
    /\ UNCHANGED <<cfgVars, diskVars, procVars, cliVars, srvVars,
                   ledgerVars, watchVars, coachVars, busVars,
                   talking_points, transcript_chunk, response_data,
                   parsed_alerts, websocket_connections, websockets,
                   dismiss_result, invocation>>

\* server.py:154, 160-162 the loop is exhausted and the dead connections
\* are removed from the list
BroadcastEnd ==
    /\ broadcasting.pc = "loop"
    /\ broadcasting.i >= Len(websocket_connections)
    /\ LET r == RemoveAll(websocket_connections,
                          broadcasting.dead_connections)
       IN /\ websocket_connections' = r.list
          /\ broadcasting' =
                [broadcasting EXCEPT
                    !.pc = IF r.raised THEN "raised" ELSE "done"]
    /\ UNCHANGED <<cfgVars, diskVars, procVars, cliVars, srvVars,
                   ledgerVars, watchVars, coachVars, busVars,
                   talking_points, transcript_chunk, response_data,
                   parsed_alerts, websockets, dismiss_result, invocation>>

NextWs ==
    \/ \E l \in Listeners : WsConnect(l)
    \/ \E l \in Listeners : WsClose(l)
    \/ \E l \in Listeners : WsDisconnect(l)
    \/ BroadcastBegin
    \/ BroadcastSend
    \/ BroadcastEnd

\* the listeners of one session and the broadcasts of its processing loop
SpecWs == InitCoaching /\ [][NextWs]_vars

\* ------------------------------------------------- the alert log rewritten
\* the ids uuid4()[:8] gives to alerts (two alerts may get the same), and an
\* id no alert has
AlertIds == {"x", "y"}
UnknownId == "z"

\* bound: alerts appended to the log
MaxAlerts == 3

\* session_store.py:118-128 the line of an alert in coaching.jsonl
to_dict(alert) ==
    [id |-> alert.id, alert_type |-> alert.alert_type,
     dismissed |-> alert.dismissed]

\* session_store.py:130-142 the alert of a line
from_dict(d) ==
    [id |-> d.id, alert_type |-> d.alert_type, dismissed |-> d.dismissed]

\* session_store.py:389-405 every line of the log is one the program wrote
load_coaching_alerts(lines) == [k \in 1..Len(lines) |-> from_dict(lines[k])]

\* a dismissal of every alert that has the id
dismiss_coaching_alert_every(lines, alert_id) ==
    LET alerts == load_coaching_alerts(lines)
    IN [found |-> \E k \in 1..Len(alerts) : alerts[k].id = alert_id,
        file |-> [k \in 1..Len(alerts) |->
                    to_dict(IF alerts[k].id = alert_id
                            THEN [alerts[k] EXCEPT !.dismissed = TRUE]
                            ELSE alerts[k])]]

\* session_store.py:408-429 what dismiss_coaching_alert returns and the log
\* it leaves: rewritten from the loaded alerts when one has the id
dismiss_coaching_alert(lines, alert_id) ==
    LET alerts == load_coaching_alerts(lines)
        hits == {k \in 1..Len(alerts) : alerts[k].id = alert_id}
    IN IF hits = {} THEN [found |-> FALSE, file |-> lines]
       ELSE LET first == CHOOSE k \in hits : \A m \in hits : k <= m
            IN [found |-> TRUE,
                file |-> [k \in 1..Len(alerts) |->
                            to_dict(IF k = first
                                    THEN [alerts[k] EXCEPT !.dismissed = TRUE]
                                    ELSE alerts[k])]]

\* session_store.py:383-386, coaching.py:254, 276 a new alert is appended to
\* the log of session "A"
AlertAppend ==
    /\ Len(coaching_jsonl["A"]) < MaxAlerts
    /\ \E id \in AlertIds, ty \in {"objection", "suggested_question"} :
        coaching_jsonl' =
            [coaching_jsonl EXCEPT !["A"] =
                Append(@, to_dict([id |-> id, alert_type |-> ty,
                                   dismissed |-> FALSE]))]
    /\ UNCHANGED <<cfgVars, diskVars, procVars, cliVars, srvVars,
                   ledgerVars, watchVars, now, chunk_alert_count,
                   last_alert_times, recent_transcript, calls, bus,
                   broadcast, busVars, sideVars>>

\* session_store.py:408-429 a call of dismiss_coaching_alert
AlertDismiss(id) ==
    /\ LET r == dismiss_coaching_alert(coaching_jsonl["A"], id)
       IN /\ coaching_jsonl' = [coaching_jsonl EXCEPT !["A"] = r.file]
          /\ dismiss_result' = [alert_id |-> id, found |-> r.found]
    /\ UNCHANGED <<cfgVars, diskVars, procVars, cliVars, srvVars,
                   ledgerVars, watchVars, now, chunk_alert_count,
                   last_alert_times, recent_transcript, calls, bus,
                   broadcast, busVars, talking_points, transcript_chunk,
                   response_data, parsed_alerts, websocket_connections,
                   websockets, broadcasting, invocation>>

NextAlerts ==
    \/ AlertAppend
    \/ \E id \in AlertIds \cup {UnknownId} : AlertDismiss(id)

\* the alert log of one session
SpecAlerts == InitCoaching /\ [][NextAlerts]_vars

\* --------------------------------------------- the calls of the model retried
\* bound: the values of max_attempts tried are 0..MaxAttempts
MaxAttempts == 4

\* a loop that goes on to a further attempt after the last one failed
MoreAttemptsAfterLast(attempt, max_attempts) == attempt <= max_attempts

\* transcribe.py:120-121, summarize.py:75-76 `if attempt < max_attempts`
\* before the sleep; the range of the loop ends at max_attempts
MoreAttempts(attempt, max_attempts) == attempt < max_attempts

\* a call of either function with any max_attempts; the summary may be asked
\* for a blank transcript
InitRetry ==
    /\ mode = "cli"
    /\ blank_chunks = {}
    /\ bad_chunks = {}
    /\ chunks_dir = {}
    /\ after_index = -1
    /\ state_json = NoState
    /\ state = NoState
    /\ status = "none"
    /\ InitDisk
    /\ InitProcesses
    /\ InitCalls
    /\ InitEngine
    /\ InitBus
    /\ talking_points = <<>>
    /\ transcript_chunk = <<>>
    /\ response_data = NoResponse
    /\ parsed_alerts = NotParsed
    /\ websocket_connections = <<>>
    /\ websockets = [l \in Listeners |-> "none"]
    /\ broadcasting = NoBroadcast
    /\ dismiss_result = NoDismiss
    /\ \E fn \in {"transcribe_audio_file", "update_running_summary"},
          n \in 0..MaxAttempts, b \in BOOLEAN :
        /\ b => fn = "update_running_summary"
        /\ invocation = [NoInvocation EXCEPT !.fn = fn, !.max_attempts = n,
                                             !.blank = b, !.pc = "start"]

\* transcribe.py:64-65, summarize.py:39-42 the checks before the loop, and
\* the loop's first attempt
RetryBegin ==
    /\ invocation.pc = "start"
    /\ invocation' =
          IF invocation.blank
          THEN [invocation EXCEPT !.pc = "returned"]
          ELSE IF invocation.max_attempts < 1
               THEN [invocation EXCEPT
                        !.pc = "raised",
                        !.raised = [kind |-> "ValueError", at |-> 0]]
               ELSE [invocation EXCEPT !.pc = "call", !.attempt = 1]
    /\ UNCHANGED <<cfgVars, diskVars, procVars, cliVars, srvVars,
                   ledgerVars, watchVars, coachVars, busVars,
                   talking_points, transcript_chunk, response_data,
                   parsed_alerts, websocket_connections, websockets,
                   broadcasting, dismiss_result>>

\* transcribe.py:99-121, summarize.py:61-76 one generate_content call: it
\* returns a text ("ok"), returns no text ("empty": RuntimeError) or raises
\* ("exc"); a response is returned, an error is kept in last_exc and either
\* the loop sleeps or, after its last attempt, last_exc is raised
\* (transcribe.py:123-124, summarize.py:78-79)
ModelCall(outcome) ==
    /\ invocation.pc = "call"
    /\ LET inv == [invocation EXCEPT !.outcomes = Append(@, outcome)]
           exc == [kind |-> outcome, at |-> invocation.attempt]
       IN invocation' =
            IF outcome = "ok"
            THEN [inv EXCEPT !.pc = "returned", !.result = inv.attempt]
            ELSE IF MoreAttempts(inv.attempt, inv.max_attempts)
                 THEN [inv EXCEPT !.pc = "sleep", !.last_exc = exc]
                 ELSE [inv EXCEPT !.pc = "raised", !.last_exc = exc,
                                  !.raised = exc]
    /\ UNCHANGED <<cfgVars, diskVars, procVars, cliVars, srvVars,
                   ledgerVars, watchVars, coachVars, busVars,
                   talking_points, transcript_chunk, response_data,
                   parsed_alerts, websocket_connections, websockets,
                   broadcasting, dismiss_result>>

\* transcribe.py:121, summarize.py:76 time.sleep returns and the loop makes
\* its next attempt
RetrySleep ==
    /\ invocation.pc = "sleep"
    /\ invocation' = [invocation EXCEPT !.pc = "call", !.attempt = @ + 1]
    /\ UNCHANGED <<cfgVars, diskVars, procVars, cliVars, srvVars,
                   ledgerVars, watchVars, coachVars, busVars,
                   talking_points, transcript_chunk, response_data,
                   parsed_alerts, websocket_connections, websockets,
                   broadcasting, dismiss_result>>

NextRetry ==
    \/ RetryBegin
    \/ \E outcome \in {"ok", "empty", "exc"} : ModelCall(outcome)
    \/ RetrySleep

\* every call of the model returns or raises, and every sleep ends
SpecRetry == InitRetry /\ [][NextRetry]_vars /\ WF_vars(NextRetry)

\* =================================================================
\* Properties
\* =================================================================

\* C1: the structured transcript log holds one record (transcript or error)
\* per processed chunk index -- never two records with the same index, and a
\* record for the index the saved ledger names as last processed -- and a
\* record once appended is never modified or removed, over any sequence of
\* processing steps, crashes and resumes.
C1_OneRecordPerIndex ==
    /\ [](\A i \in 0..MaxChunk :
            /\ Cardinality({k \in 1..Len(transcript_jsonl) :
                              transcript_jsonl[k].index = i}) <= 1
            /\ state_json.last_processed_index = i =>
                  \E k \in 1..Len(transcript_jsonl) :
                      transcript_jsonl[k].index = i)
    /\ [][/\ Len(transcript_jsonl') >= Len(transcript_jsonl)
          /\ SubSeq(transcript_jsonl', 1, Len(transcript_jsonl))
                = transcript_jsonl]_vars

\* C2: in every ledger written by save_state, in every reachable state of a
\* CLI run or a server session, last_summarized_index <= last_processed_index.
C2_WatermarkOrder ==
    state_json.last_summarized_index <= state_json.last_processed_index

\* C3: find_next_completed_chunk returns the chunk with the lowest index
\* greater than after_index among the chunk files that are not the
\* highest-indexed one, and none when there is no such file; gaps in the
\* indices and non-matching file names do not change the result.
C3_NextCompletedChunk ==
    found.fn = "find_next_completed_chunk" =>
        LET idxs == {p.n : p \in {q \in chunks_dir :
                                    q.kind = "chunk" /\ q.n > after_index}}
            notNewest == {i \in idxs : \E j \in idxs : j > i}
        IN IF notNewest = {}
           THEN found.result = None
           ELSE /\ found.result.index \in notNewest
                /\ \A j \in notNewest : found.result.index <= j
                /\ found.result.path = ChunkPath(found.result.index)

\* C3 witness: with out00000.wav and out00002.wav (a gap at 1), a file
\* out-notes.wav and a file of another name in the directory, the call with
\* after_index = -1 has returned chunk 0.
C3_Witness ==
    /\ found.fn = "find_next_completed_chunk"
    /\ chunks_dir = {ChunkPath(0), ChunkPath(2), StrayOutPath, OtherPath}
    /\ after_index = -1
    /\ found.result = ChunkFile(0, ChunkPath(0))

\* C4: find_next_chunk (drain mode) returns the chunk with the lowest index
\* greater than after_index among all chunk files present, even when it is
\* the highest-indexed file, and none only when no file has a greater index.
C4_NextChunkDrain ==
    found.fn = "find_next_chunk" =>
        LET idxs == {p.n : p \in {q \in chunks_dir :
                                    q.kind = "chunk" /\ q.n > after_index}}
        IN IF idxs = {}
           THEN found.result = None
           ELSE /\ found.result.index \in idxs
                /\ \A j \in idxs : found.result.index <= j
                /\ found.result.path = ChunkPath(found.result.index)

\* C4 witness: the only chunk after after_index = 1 is the highest-indexed
\* file, out00002.wav, and find_next_chunk has returned it.
C4_Witness ==
    /\ found.fn = "find_next_chunk"
    /\ {ChunkPath(0), ChunkPath(2), StrayOutPath} \subseteq chunks_dir
    /\ after_index = 1
    /\ found.result = ChunkFile(2, ChunkPath(2))

\* C5: when the transcription of chunk i fails, the pipeline moves the chunk
\* file to the quarantine directory, appends an error record for i with an
\* error field and no text field, writes no transcript line and adds nothing
\* to the pending-summary buffer for i, and persists last_processed_index = i;
\* in the CLI (the step that ends the failure handling) and in the server
\* (the step in which the transcription call raises).
C5_FailureHandling ==
    [][/\ (cli_pc = "error_save" /\ cli_pc' \in {"maybe_summary", "drain"}) =>
            /\ chunk.path \in failed_dir'
            /\ chunk.path \notin chunks_dir'
            /\ \E k \in 1..Len(transcript_jsonl') :
                  /\ transcript_jsonl'[k].index = chunk.index
                  /\ "error" \in DOMAIN transcript_jsonl'[k]
                  /\ "text" \notin DOMAIN transcript_jsonl'[k]
            /\ \A k \in 1..Len(transcript_txt') :
                  transcript_txt'[k].offset
                      # format_hhmmss(chunk.index * state.chunk_seconds)
            /\ \A k \in 1..Len(pending_for_summary') :
                  pending_for_summary'[k] # Word(chunk.index)
            /\ state_json'.last_processed_index = chunk.index
       /\ \A t \in 1..MaxTasks :
            (/\ tasks[t].pc = "stable"
             /\ tasks'[t].pc = "backoff"
             /\ tasks'[t].err = "transcribe") =>
                /\ tasks[t].chunk.path \in failed_dir'
                /\ tasks[t].chunk.path \notin chunks_dir'
                /\ \E k \in 1..Len(transcript_jsonl') :
                      /\ transcript_jsonl'[k].index = tasks[t].chunk.index
                      /\ "error" \in DOMAIN transcript_jsonl'[k]
                      /\ "text" \notin DOMAIN transcript_jsonl'[k]
                /\ transcript_txt' = transcript_txt
                /\ state_json'.last_processed_index = tasks[t].chunk.index
      ]_vars

\* C6: a chunk whose transcription fails on every attempt never blocks the
\* session: once a processing loop of the server has seen the transcription
\* of chunk i fail, last_processed_index eventually becomes >= i, unless the
\* session's loops are ended by a stop request.
C6_FailedChunkNeverBlocks ==
    \A i \in 0..MaxChunk :
        (\E t \in 1..MaxTasks :
            /\ tasks[t].pc = "backoff"
            /\ tasks[t].err = "transcribe"
            /\ tasks[t].chunk.index = i)
        ~> (\/ state.last_processed_index >= i
            \/ \A t \in 1..MaxTasks : tasks[t].pc \in {"none", "done"})

\* C7: when the stability check of a chunk times out, last_processed_index
\* is left unchanged, no record is written for the chunk and the session
\* keeps running: control returns to the loop, which finds and retries the
\* same chunk, and capture is not stopped.
C7_StabilityTimeoutRetries ==
    [][/\ (cli_pc = "raise_timeout" /\ cli_pc' # "raise_timeout") =>
            /\ cli_pc' \in {"poll", "maybe_summary", "drain"}
            /\ phase' = phase
            /\ ffmpeg'.alive = ffmpeg.alive
            /\ last_processed_index' = last_processed_index
            /\ state_json' = state_json
            /\ transcript_jsonl' = transcript_jsonl
       /\ \A t \in 1..MaxTasks :
            (/\ tasks[t].pc = "stable"
             /\ tasks'[t].pc = "backoff"
             /\ tasks'[t].err = "timeout") =>
                /\ state' = state
                /\ state_json' = state_json
                /\ transcript_jsonl' = transcript_jsonl
                /\ status' = status
                /\ ffmpeg' = ffmpeg
      ]_vars

\* C8: a load_state that runs concurrently with a save_state returns either
\* the ledger as it was before the save or the ledger being saved; it never
\* meets an empty or partially written state.json.
C8_LoadSeesWholeLedger ==
    [][(load_pc = "read" /\ load_pc' = "idle") =>
            /\ loaded'.kind = "state"
            /\ loaded'.st \in {saved_before, state_json}]_vars

\* C9: on startup with an existing ledger, a chunk taken up by the run has
\* an index greater than the ledger's last_processed_index, and the
\* pending-summary buffer is initialised with the texts of exactly the
\* transcript records whose index is greater than last_summarized_index, in
\* index order.
C9_ResumeAfterWatermarks ==
    /\ [](cli_pc \in {"stable", "raise_timeout", "append_txt", "append_jsonl",
                      "save", "quarantine", "error_jsonl", "error_save"} =>
            chunk.index > state_json.last_processed_index)
    /\ [][(cli_pc = "down" /\ cli_pc' = "poll") =>
            LET recs == {k \in 1..Len(transcript_jsonl) :
                            /\ "text" \in DOMAIN transcript_jsonl[k]
                            /\ transcript_jsonl[k].index
                                  > state_json.last_summarized_index}
                n == Len(pending_for_summary')
            IN /\ n = Cardinality(recs)
               /\ \E f \in [1..n -> recs] :
                    /\ \A a, b \in 1..n :
                          a < b => /\ f[a] # f[b]
                                   /\ transcript_jsonl[f[a]].index
                                        <= transcript_jsonl[f[b]].index
                    /\ \A a \in 1..n :
                          pending_for_summary'[a] = transcript_jsonl[f[a]].text
          ]_vars

\* C9 witness: a second run has resumed from a ledger in which chunk 0 was
\* summarised and chunk 1 processed but not summarised; its buffer holds the
\* text of chunk 1 and it has taken up chunk 2.
C9_Witness ==
    /\ runs = 2
    /\ state_json.last_summarized_index = 0
    /\ state_json.last_processed_index = 1
    /\ pending_for_summary = <<Word(1)>>
    /\ cli_pc = "stable"
    /\ chunk.index = 2

\* C10: at any time at most one processing loop is running for the session,
\* under every order of create, submit-prep, start and stop requests.
C10_OneProcessingLoop ==
    Cardinality({t \in 1..MaxTasks :
                    tasks[t].pc \in {"top", "stable", "post", "backoff"}}) <= 1


\* C11: no operation moves a session whose status is Recording or Stopped
\* back to Created or Prepared, and a processing loop is running only while
\* the status is Recording.
C11_StatusMovesForward ==
    /\ [][(status \in {"recording", "paused", "stopped"}) =>
            status' \notin {"created", "prepared"}]_vars
    /\ [](\A t \in 1..MaxTasks :
            tasks[t].pc \in {"top", "stable", "post", "backoff"} =>
                status = "recording")

\* C12: when shutdown has completed (the command-line run has finished its
\* drain, or the server's stop request has returned), no chunk file with an
\* index greater than the processed watermark is left in the chunk
\* directory: every one of them, the highest-numbered included, was
\* processed before the final summarization.
C12_StopDrainsAllChunks ==
    /\ (mode = "cli" /\ phase = "final") =>
            \A p \in chunks_dir :
                parse_chunk_index(p) # NoIndex =>
                    parse_chunk_index(p) <= state.last_processed_index
    /\ (mode = "server" /\ status = "stopped" /\ stop_pc = "idle") =>
            \A p \in chunks_dir :
                parse_chunk_index(p) # NoIndex =>
                    parse_chunk_index(p) <= state.last_processed_index

\* C13: when the capture process has exited while the status is Recording
\* and no stop request is in progress, the session eventually leaves the
\* Recording status.
C13_CaptureExitStopsSession ==
    (mode = "server" /\ status = "recording" /\ ~ffmpeg.alive
        /\ stop_pc = "idle")
      ~> (status # "recording")

\* C14: a processing task that has a transcription call in flight is never
\* ended by a stop; the call returns and its record and watermark update are
\* done (or its failure is handled) before the task finishes.
C14_StopWaitsForCallInFlight ==
    [][\A t \in 1..MaxTasks :
          tasks[t].pc = "stable" =>
              tasks'[t].pc \in {"stable", "post", "backoff"}]_vars

\* C15: every start of capture, whether a command-line run or a server start
\* request after a stop, numbers the new chunk files from one more than the greater of
\* the highest chunk index in the chunk directory and the ledger's
\* last_processed_index, so that a file of an earlier run is never
\* overwritten.
C15_CaptureStartNumbering ==
    [][(\/ (mode = "cli" /\ cli_pc = "down" /\ cli_pc' # "down")
        \/ (mode = "server" /\ status = "stopped"
                /\ status' = "recording")) =>
          LET indices == {parse_chunk_index(p) : p \in chunks_dir}
                            \ {NoIndex}
              highest == IF indices = {} THEN -1
                         ELSE CHOOSE i \in indices :
                                  \A j \in indices : j <= i
              lpi     == state'.last_processed_index
          IN ffmpeg'.next = (IF highest > lpi THEN highest ELSE lpi) + 1
      ]_vars

\* C16: the chunk_seconds stored in the ledger never changes once the ledger
\* exists; a command-line run, also one resumed with a different
\* --chunk-seconds, captures with the ledger's value and computes the offset
\* of every transcript line from it.
C16_LedgerChunkSecondsWins ==
    /\ [][state_json # NoState =>
            state_json'.chunk_seconds = state_json.chunk_seconds]_vars
    /\ []((mode = "cli" /\ cli_pc # "down") =>
            /\ chunk_seconds = state_json.chunk_seconds
            /\ ffmpeg.segment_time = state_json.chunk_seconds)
    /\ [][(mode = "cli" /\ Len(transcript_txt') = Len(transcript_txt) + 1) =>
            LET line == transcript_txt'[Len(transcript_txt')]
            IN line.offset[1] * 3600 + line.offset[2] * 60 + line.offset[3]
                  = chunk.index * state_json.chunk_seconds]_vars

\* C16 witness: a run resumed with a --chunk-seconds other than the ledger's
\* has printed the warning, gone on, and appended the transcript line of
\* chunk 1 at the offset one ledger chunk length.
C16_Witness ==
    /\ warned
    /\ runs = 2
    /\ cli_pc = "append_jsonl"
    /\ chunk.index = 1
    /\ state_json.chunk_seconds = 60
    /\ transcript_txt[Len(transcript_txt)].offset = <<0, 1, 0>>

\* C17: no analyze_chunk call emits more than max_alerts_per_chunk alerts:
\* for every session and every call, the alerts of that call in the alert
\* log, competitor and LLM alerts together, and those published on the bus,
\* number at most max_alerts_per_chunk.
C17_AlertCapPerCall ==
    \A s \in Sessions, n \in 1..MaxCalls :
        /\ Cardinality({k \in 1..Len(coaching_jsonl[s]) :
                            coaching_jsonl[s][k].call = n})
              <= max_alerts_per_chunk
        /\ Cardinality({k \in 1..Len(bus[s]) : bus[s][k].call = n})
              <= max_alerts_per_chunk

C19_LoggedBeforeSeen ==
    \A s \in Sessions :
        /\ \A k \in 1..Len(bus[s]) :
              \E i \in 1..Len(coaching_jsonl[s]) :
                  coaching_jsonl[s][i] = bus[s][k]
        /\ \A k \in 1..Len(broadcast[s]) :
              \E i \in 1..Len(coaching_jsonl[s]) :
                  coaching_jsonl[s][i] = broadcast[s][k]

\* C20: while an analyze_chunk call of one session is in progress, a step of
\* another session's chunk processing changes neither the rolling
\* transcript window nor the per-chunk alert count nor the last-alert times
\* that the call uses.
C20_EngineStatePerSession ==
    [][\A s, u \in Sessions :
          (/\ s # u
           /\ calls[s].pc # "idle"
           /\ calls'[s] = calls[s]
           /\ calls'[u] # calls[u]) =>
              /\ recent_transcript' = recent_transcript
              /\ chunk_alert_count' = chunk_alert_count
              /\ last_alert_times' = last_alert_times]_vars

C22_NoPrepNoSideEffects ==
    [][\A s \in Sessions :
          (calls'[s].n = calls[s].n + 1 /\ calls'[s].pc = "idle") =>
              /\ recent_transcript' = recent_transcript
              /\ chunk_alert_count' = chunk_alert_count
              /\ last_alert_times' = last_alert_times
              /\ coaching_jsonl' = coaching_jsonl
              /\ bus' = bus]_vars

\* C23: the deliveries of one publish call are made in this order: the
\* queues subscribed to the event's type, then the wildcard queues, then the
\* handlers of the event's type, then the wildcard handlers, and within each
\* of the four in the order of registration.
C23_PublishOrder ==
    LET done == publishing.calls
    IN /\ \A i, j \in 1..Len(done) :
              i < j => \/ done[i].phase < done[j].phase
                       \/ /\ done[i].phase = done[j].phase
                          /\ done[i].reg < done[j].reg
       /\ \A i \in 1..Len(done) :
              /\ done[i].phase = 1 =>
                    queues[done[i].reg].key = publishing.event.type
              /\ done[i].phase = 2 => queues[done[i].reg].key = "*"
              /\ done[i].kind = "queue" <=> done[i].phase \in {1, 2}

\* C23 witness: a publish call has finished its last loop after one delivery
\* of each of the four kinds.
C23_Witness ==
    /\ publishing.pc = "wildcard_handlers"
    /\ publishing.i >= Len(HandlerList)
    /\ Len(publishing.calls) = 4
    /\ \A i \in 1..4 : publishing.calls[i].phase = i

\* C24: every queue that is subscribed has received exactly the events
\* published since its subscription that are of its type (all of them for a
\* wildcard queue), each once and in the order of publication; and what it
\* holds is what it received less the events its own consumer has taken.
C24_EachQueueEachEventOnce ==
    \A q \in 1..MaxQueues :
        (/\ queues[q].made
         /\ \E i \in 1..Len(async_subscribers[queues[q].key]) :
               async_subscribers[queues[q].key][i].id = q) =>
            LET Match(e) == /\ e.id > queues[q].since
                            /\ queues[q].key \in {"*", e.type}
            IN /\ queues[q].put = SelectSeq(event_log, Match)
               /\ queues[q].items =
                     SubSeq(queues[q].put, queues[q].taken + 1,
                            Len(queues[q].put))

\* C24 witness: two queues subscribed to chunk_transcribed, two events of
\* that type published; the consumer of the first queue has taken one event,
\* and the second queue still holds both.
C24_Witness ==
    /\ async_subscribers["chunk_transcribed"] =
          <<[id |-> 1, reg |-> 1], [id |-> 2, reg |-> 2]>>
    /\ queues[1].items = <<Event(2, "chunk_transcribed")>>
    /\ queues[1].taken = 1
    /\ queues[2].items = <<Event(1, "chunk_transcribed"),
                           Event(2, "chunk_transcribed")>>

\* C25: when a publish call has finished its last loop, every queue and
\* every handler that was registered for the event when the call began and
\* was not removed during the call has been delivered the event exactly
\* once, whatever the handlers called by the publish call did to the lists.
C25_DeliveredToAllRegistered ==
    (/\ publishing.pc = "wildcard_handlers"
     /\ publishing.i >= Len(HandlerList)) =>
        \A r \in publishing.stayed :
            Cardinality({k \in 1..Len(publishing.calls) :
                            /\ publishing.calls[k].kind = r.kind
                            /\ publishing.calls[k].reg = r.reg}) = 1

\* C26: a queue has only ever held events whose publish call began after
\* the subscribe call that made it; in particular it has held nothing as
\* long as no publish call has begun since.
C26_QueueStartsEmpty ==
    \A q \in 1..MaxQueues :
        queues[q].made =>
            /\ \A k \in 1..Len(queues[q].put) :
                  queues[q].put[k].id > queues[q].since
            /\ \A k \in 1..Len(queues[q].items) :
                  queues[q].items[k].id > queues[q].since
            /\ Len(event_log) = queues[q].since => queues[q].put = <<>>

\* C26 witness: a wildcard queue made after the first event was published
\* holds the second event and nothing else.
C26_Witness ==
    /\ queues[1].made
    /\ queues[1].key = "*"
    /\ queues[1].since = 1
    /\ Len(queues[1].items) = 1
    /\ queues[1].items[1].id = 2

\* C27: the steps of a chunk are durable before they are visible: whenever
\* the saved ledger's last_processed_index rises to an index, the log holds
\* a record of that index; and whenever a chunk file is deleted (not moved
\* to failed_chunks), the saved ledger's last_processed_index is at least
\* the file's index.
C27_SavedBeforeDeleted ==
    [][/\ state_json'.last_processed_index
              > state_json.last_processed_index =>
            \E k \in 1..Len(transcript_jsonl') :
                transcript_jsonl'[k].index
                    = state_json'.last_processed_index
       /\ \A p \in chunks_dir \ chunks_dir' :
            p \notin failed_dir' =>
                state_json.last_processed_index >= parse_chunk_index(p)]_vars

\* C28: the text of a transcribed chunk is part of the input of at most one
\* successful summarization, whatever failed summarizations, crashes and
\* resumes the session went through: no chunk's text is in the saved summary
\* more than once.
C28_SummarizedOnce ==
    \A i \in 0..MaxChunk :
        Cardinality({k \in 1..Len(state_json.summary) :
                        state_json.summary[k] = Word(i)}) <= 1

\* C29: with a cadence of two chunks, when a processing loop has finished
\* the steps of a chunk that brought the number of chunks since the last
\* summarization to the cadence, and there was transcript text to summarize,
\* the saved ledger's last_summarized_index equals its last_processed_index
\* and the summary document holds the saved summary, in which the new text
\* is included.
C29_SummaryAtCadence ==
    [][\A t \in 1..MaxTasks :
          (/\ tasks[t].pc = "post"
           /\ tasks'[t].pc \notin {"post", "done", "none"}
           /\ tasks[t].chunks_per_summary = 2
           /\ SummaryDue(tasks[t])
           /\ load_transcript_since(transcript_jsonl,
                                    state.last_summarized_index) # <<>>) =>
              /\ state_json'.last_summarized_index
                    = state_json'.last_processed_index
              /\ summary_md' = write_summary(state_json'.summary)
              /\ state_json'.summary # state_json.summary]_vars

\* C30: a summarization attempt that fails changes neither the saved ledger
\* nor the summary document nor the state in memory; the session goes on;
\* the pending text stays pending (the command line keeps its buffer, the
\* server reads the log from last_summarized_index again); and the loop's
\* next attempt is one cadence later (a server loop whose cadence is more
\* than one chunk counts it from the chunk of the failed attempt).
C30_FailedSummaryRetried ==
    [][/\ (/\ cli_pc = "maybe_summary"
           /\ cli_pc' \in {"poll", "down"}) =>
              /\ state_json' = state_json
              /\ summary_md' = summary_md
              /\ cli_pc' = "poll" =>
                    /\ state' = state
                    /\ pending_for_summary' = pending_for_summary
       /\ \A t \in 1..MaxTasks :
            (/\ tasks[t].pc = "post"
             /\ tasks'[t].pc = "backoff"
             /\ tasks'[t].err = "summary") =>
                /\ state_json' = state_json
                /\ summary_md' = summary_md
                /\ state' = state
                /\ status' = status
                /\ tasks[t].chunks_per_summary > 1 =>
                      tasks'[t].last_summary_index = tasks[t].chunk.index]_vars

\* C31: the records of the transcript log are in strictly increasing order
\* of chunk index.
C31_LogStrictlyIncreasing ==
    \A k \in 1..(Len(transcript_jsonl) - 1) :
        transcript_jsonl[k].index < transcript_jsonl[k + 1].index

\* C32: no save of the ledger lowers last_processed_index or
\* last_summarized_index.
C32_WatermarksNeverDecrease ==
    [][/\ state_json'.last_processed_index
              >= state_json.last_processed_index
       /\ state_json'.last_summarized_index
              >= state_json.last_summarized_index]_vars

\* C33: while the capture process is running, a chunk whose transcription
\* is made (it returns or raises) is not the highest-indexed chunk file of
\* the chunk directory, on the command line and in the server.
C33_NewestChunkNotTranscribed ==
    [][/\ (/\ ffmpeg.alive
           /\ cli_pc = "stable"
           /\ cli_pc' \in {"append_txt", "quarantine"}) =>
              chunk.index < max_chunk_index(chunks_dir)
       /\ \A t \in 1..MaxTasks :
            (/\ ffmpeg.alive
             /\ tasks[t].pc = "stable"
             /\ \/ tasks'[t].pc = "post"
                \/ tasks'[t].pc = "backoff" /\ tasks'[t].err # "timeout") =>
                tasks[t].chunk.index < max_chunk_index(chunks_dir)]_vars

\* C33 witness: the command-line run has transcribed chunk 0 while capture
\* was running and out000001.wav was the newest file; chunk 1 has not been
\* taken.
C33_Witness ==
    /\ mode = "cli"
    /\ ffmpeg.alive
    /\ cli_pc = "poll"
    /\ last_processed_index = 0
    /\ max_chunk_index(chunks_dir) = 1
    /\ Len(transcript_jsonl) = 1

\* C38: a queue that unsubscribe has removed from the list of its event type
\* receives no event of a later publish and is not listed again; unsubscribe
\* of a registered queue removes its one entry and leaves every other entry
\* of every list in place and in order; unsubscribe under a key the queue is
\* not registered for (a type nobody subscribed to included) changes nothing.
C38_UnsubscribeStopsDelivery ==
    /\ [](\A k \in BusKeys, q \in 1..MaxQueues :
            LET listed(subs, key) ==
                    \E i \in 1..Len(subs[key]) : subs[key][i].id = q
                after == unsubscribe(async_subscribers, k, q)
            IN queues[q].made =>
                 /\ \A other \in BusKeys \ {k} :
                        after[other] = async_subscribers[other]
                 /\ ~listed(after, k)
                 /\ after[k] = SelectSeq(async_subscribers[k],
                                         LAMBDA e : e.id # q)
                 /\ ~listed(async_subscribers, k) =>
                        after = async_subscribers)
    /\ [][\A q \in 1..MaxQueues :
            (/\ queues[q].made
             /\ \A k \in BusKeys : \A i \in 1..Len(async_subscribers[k]) :
                    async_subscribers[k][i].id # q) =>
                /\ queues'[q].put = queues[q].put
                /\ \A k \in BusKeys :
                     \A i \in 1..Len(async_subscribers'[k]) :
                        async_subscribers'[k][i].id # q]_vars

\* C38 witness: the wildcard queue 1 was unsubscribed before the first
\* publish, which put its event on queue 2 only.
C38_Witness ==
    /\ queues[1].made /\ queues[1].key = "*"
    /\ queues[2].made /\ queues[2].key = "*"
    /\ async_subscribers["*"] = <<[id |-> 2, reg |-> 2]>>
    /\ Len(event_log) = 1
    /\ queues[1].put = <<>>
    /\ queues[2].put = event_log

\* C34: the startup resumption of a session that has a ledger leaves the
\* ledger on disk as it was, whatever chunk length the command line gives, so
\* that a second resumption writes the same ledger as the first.
C34_ResumeIdempotent ==
    [][(/\ cli_pc = "down"
        /\ cli_pc' = "poll"
        /\ state_json # NoState) =>
            /\ state_json' = state_json
            /\ state' = load_state(state_json)]_vars

\* C34 witness: the second resumption in a row has run on a ledger of 30
\* second chunks with two chunks processed, with 60 given on the command
\* line.
C34_Witness ==
    /\ runs = 2
    /\ cli_pc = "poll"
    /\ warned
    /\ state_json.chunk_seconds = 30
    /\ state_json.last_processed_index = 1
    /\ state_json.last_summarized_index = 0

\* C35: in every step, a talking point that is mentioned stays mentioned
\* with the same mentioned_at, and a talking point that becomes mentioned
\* does so on a chunk text that holds its topic as a whole word, whatever
\* the case.
C35_MentionedOnlySetOnce ==
    [][\A i \in 1..Len(talking_points), j \in 1..Len(talking_points') :
         talking_points'[j].topic = talking_points[i].topic =>
            /\ talking_points[i].mentioned =>
                  talking_points'[j] = talking_points[i]
            /\ (~talking_points[i].mentioned
                /\ talking_points'[j].mentioned) =>
                  check_topic_mentioned(transcript_chunk',
                                        talking_points[i].topic)]_vars

\* C36: the alerts returned for a response are, for each of the five lists,
\* as many alerts of the list's type as the list has entries whose required
\* text is present and not empty.
C36_OneAlertPerFilledEntry ==
    LET filled(list, key) ==
            Len(SelectSeq(list, LAMBDA e : e[key] \notin {Absent, <<>>}))
        made(alert_type) ==
            Len(SelectSeq(parsed_alerts.alerts,
                          LAMBDA a : a.alert_type = alert_type))
    IN parsed_alerts.done =>
        /\ made("objection") = filled(response_data.objections, "detected")
        /\ made("suggested_question") =
              filled(response_data.suggested_questions, "question")
        /\ made("missing_topic") =
              filled(response_data.missing_topics, "topic")
        /\ made("competitor_mention") =
              filled(response_data.competitor_insights, "competitor")
        /\ made("custom_reminder") =
              filled(response_data.observations, "content")

\* C37: no broadcast raises to the processing loop, and a broadcast that has
\* returned has sent the message exactly once to every listener that was
\* connected from its beginning to its end.
C37_BroadcastReachesAll ==
    /\ broadcasting.pc # "raised"
    /\ broadcasting.pc = "done" =>
          \A l \in broadcasting.whole :
              Len(SelectSeq(broadcasting.sent, LAMBDA x : x = l)) = 1

\* C39: dismiss_coaching_alert(id) returns whether an alert has the id and
\* leaves the log as it was except for the dismissed flag of the first alert
\* with that id, which is true; for an id no alert has the log is unchanged;
\* a second dismissal of the same id leaves the log of the first; and every
\* step keeps the alerts already in the log, in order, with at most one
\* dismissed flag changed from false to true.
C39_OnlyDismissedChanges ==
    /\ [](\A id \in AlertIds \cup {UnknownId} :
            LET log == coaching_jsonl["A"]
                r == dismiss_coaching_alert(log, id)
                has(k) == log[k].id = id /\ \A m \in 1..(k - 1) : log[m].id # id
            IN /\ r.found = (\E k \in 1..Len(log) : log[k].id = id)
               /\ Len(r.file) = Len(log)
               /\ \A k \in 1..Len(log) :
                    r.file[k] = IF has(k)
                                THEN [log[k] EXCEPT !.dismissed = TRUE]
                                ELSE log[k]
               /\ ~r.found => r.file = log
               /\ dismiss_coaching_alert(r.file, id).file = r.file)
    /\ [][LET log == coaching_jsonl["A"]
              after == coaching_jsonl'["A"]
          IN /\ Len(after) >= Len(log)
             /\ \A k \in 1..Len(log) :
                  /\ [after[k] EXCEPT !.dismissed = log[k].dismissed] = log[k]
                  /\ log[k].dismissed => after[k].dismissed
             /\ Cardinality({k \in 1..Len(log) : after[k] # log[k]}) <= 1]_vars

\* C39 witness: of two alerts with the same id the first has been dismissed
\* and the second has not.
C39_Witness ==
    /\ dismiss_result = [alert_id |-> "x", found |-> TRUE]
    /\ Len(coaching_jsonl["A"]) = 2
    /\ coaching_jsonl["A"][1].id = "x" /\ coaching_jsonl["A"][1].dismissed
    /\ coaching_jsonl["A"][2].id = "x" /\ ~coaching_jsonl["A"][2].dismissed

\* C40: a call of the transcription or the summarization function ends: it
\* returns or raises.  It makes at most max_attempts calls of the model; when
\* it returns a response, that is the response of its first successful call,
\* which is its last call; when it raises after calling the model, it has
\* made max_attempts calls, all failed, and raises the error of the last.
C40_RetryTerminates ==
    /\ [](LET inv == invocation
              failed(k) == inv.outcomes[k] # "ok"
          IN /\ Len(inv.outcomes) <= inv.max_attempts
             /\ (inv.pc = "returned" /\ inv.result > 0) =>
                   /\ inv.result = Len(inv.outcomes)
                   /\ inv.outcomes[inv.result] = "ok"
                   /\ \A k \in 1..(inv.result - 1) : failed(k)
             /\ (inv.pc = "raised" /\ inv.raised.kind # "ValueError") =>
                   /\ Len(inv.outcomes) = inv.max_attempts
                   /\ \A k \in 1..Len(inv.outcomes) : failed(k)
                   /\ inv.raised = [kind |-> inv.outcomes[inv.max_attempts],
                                    at |-> inv.max_attempts])
    /\ <>(invocation.pc \in {"returned", "raised"})

\* C40 witness: with max_attempts 3 the function has raised the error of its
\* third call after three failed calls.
C40_Witness ==
    /\ invocation.pc = "raised"
    /\ invocation.max_attempts = 3
    /\ invocation.outcomes = <<"exc", "empty", "empty">>
    /\ invocation.raised = [kind |-> "empty", at |-> 3]
====
